---- MODULE Spec2Model ----
(***************************************************************************)
(* Model of the in-memory inverted index MemOnlyIndex of go-query-index.   *)
(* DocIDs are 0-based as in the Go code; TLA+ sequences are 1-based, so    *)
(* slot did of a Go slice s is s[did + 1] here.                            *)
(***************************************************************************)
EXTENDS Integers, Sequences, FiniteSets, TLC

VARIABLES perField, forward, forwardByID, postings, last, fault, topn,
          lock, pc, loc, stable, acq, writes,
          backing, pv, held,
          shingles, dir

vars == <<perField, forward, forwardByID, postings, last, fault, topn,
          lock, pc, loc, stable, acq, writes,
          backing, pv, held,
          shingles, dir>>

\* a run of the Shingles tokenizer, of the specification SpecShingles, and
\* a DirIndex with its files, of the specification SpecDir
extraVars == <<shingles, dir>>

\* one posting list as the Go slice it is, of the specification SpecSlice:
\* the arrays allocated so far, the slice stored in the postings map, and
\* the slices that term queries have been given
sliceVars == <<backing, pv, held>>

\* the goroutines of the specification SpecConc: the RWMutex, where each
\* goroutine is in its call and its locals, the index as the last writer
\* left it, the Index calls in the order they got the lock, the number of
\* writing calls made
concVars == <<lock, pc, loc, stable, acq, writes>>

\* the state of the calls that the specification Spec does not make
others == <<topn, lock, pc, loc, stable, acq, writes, backing, pv, held,
            shingles, dir>>

\* ---------------------------------------------------------------- bounds
\* largest number of DocIDs ever assigned in a run
MaxDocs == 3
\* largest number of documents passed to one Index(docs...) call
MaxBatch == 2
\* longest DocID sequence an arbitrary query iterator yields
MaxQueryLen == 2
\* largest limit TopN is called with
MaxLimit == 2
\* largest score a query iterator reports (scores are 1..MaxScore)
MaxScore == 2
\* largest number of Index, Delete and DeleteByID calls the goroutines of
\* SpecConc make
MaxWrites == 3
\* largest number of documents indexed in SpecSlice (the fourth is the first
\* that append stores in place)
MaxSliceDocs == 4
\* largest number of term queries that are kept in SpecSlice
MaxHeld == 2
\* longest token list and largest n of the Shingles runs besides the test
\* cases
MaxTokens == 3
MaxShingle == 3
\* largest maxOpenFD a DirIndex is made with, and most DocIDs in one file
MaxOpenFD == 1
MaxRecords == 2

\* ------------------------------------------------------------- documents
\* a nil Document interface value (a tombstone in forward)
Nil == "nil"

IDField == "_id"

\* strings are sequences of one-character strings, in decomposed form: "^"
\* stands for a combining accent on the letter before it
vAa == <<"A", "^", " ", "a">>
va == <<"a">>
vab == <<"a", "-", "b">>
vb == <<"b">>
v12 == <<"1", "2">>
idx == <<"x">>
idy == <<"y">>
idX == <<"X", " ", "x">>

\* the documents callers hand to the index, by name
Docs == {"D1", "D2"}

\* Document.IndexableFields(): field name -> list of values
IndexableFields(d) ==
  CASE d = "D1" -> [_id |-> <<idx>>, names |-> <<vAa, va>>,
                    country |-> <<vAa>>]
    [] d = "D2" -> [_id |-> <<idy, idX>>, names |-> <<vab, v12>>,
                    uuid |-> <<idX>>, country |-> << >>]

\* every field name a document of Docs carries, in a fixed order; the Go map
\* iteration order is unspecified, and the loop body for one field touches
\* only postings[field] (and forwardByID for the id field), so every order
\* gives the same result
FieldOrder == <<"_id", "names", "uuid", "country">>

Fields == {FieldOrder[i] : i \in 1..Len(FieldOrder)}

\* ------------------------------------------------------------- analysis
IsDigit(c) == c \in {"0", "1", "2", "3", "4", "5", "6", "7", "8", "9"}

IsLetter(c) == c \in {"a", "b", "x", "y", "A", "B", "X", "Y"}

IsSpace(c) == c = " "

LowerChar(c) ==
  CASE c = "A" -> "a" [] c = "B" -> "b" [] c = "X" -> "x" [] c = "Y" -> "y"
    [] OTHER -> c

\* norm.NewLowerCase
LowerCase(s) == [i \in 1..Len(s) |-> LowerChar(s[i])]

IsCombining(c) == c = "^"

\* norm.NewUnaccent: decompose and drop the combining marks
RECURSIVE Unaccent(_)
Unaccent(s) ==
  IF Len(s) = 0 THEN s
  ELSE IF IsCombining(s[1]) THEN Unaccent(Tail(s))
       ELSE <<s[1]>> \o Unaccent(Tail(s))

\* norm.NewSpaceBetweenDigits: a space between any two adjacent digits
RECURSIVE SpaceBetweenDigits(_)
SpaceBetweenDigits(s) ==
  IF Len(s) <= 1 THEN s
  ELSE IF IsDigit(s[1]) /\ IsDigit(s[2])
       THEN <<s[1], " ">> \o SpaceBetweenDigits(Tail(s))
       ELSE <<s[1]>> \o SpaceBetweenDigits(Tail(s))

\* norm.NewCleanup(BASIC_NON_ALPHANUMERIC): other characters become a space
Cleanup(s) ==
  [i \in 1..Len(s) |->
     IF IsLetter(s[i]) \/ IsDigit(s[i]) \/ IsSpace(s[i]) THEN s[i] ELSE " "]

RECURSIVE TrimLeft(_)
TrimLeft(s) == IF Len(s) > 0 /\ IsSpace(s[1]) THEN TrimLeft(Tail(s)) ELSE s

RECURSIVE TrimRight(_)
TrimRight(s) ==
  IF Len(s) > 0 /\ IsSpace(s[Len(s)])
  THEN TrimRight(SubSeq(s, 1, Len(s) - 1)) ELSE s

\* norm.NewTrim(" ")
Trim(s) == TrimRight(TrimLeft(s))

\* DefaultNormalizer, applied in order
DefaultNormalizer(s) ==
  Trim(Cleanup(SpaceBetweenDigits(LowerCase(Unaccent(s)))))

\* tokenize.NewWhitespace: split on whitespace, drop empty splits
\* (cur is the split being collected)
RECURSIVE WhitespaceFrom(_, _)
WhitespaceFrom(s, cur) ==
  IF Len(s) = 0 THEN (IF Len(cur) = 0 THEN << >> ELSE <<cur>>)
  ELSE IF IsSpace(s[1])
       THEN (IF Len(cur) = 0 THEN << >> ELSE <<cur>>)
            \o WhitespaceFrom(Tail(s), << >>)
       ELSE WhitespaceFrom(Tail(s), Append(cur, s[1]))

Whitespace(s) == WhitespaceFrom(s, << >>)

Analyzers == {"Default", "ID"}

\* Analyzer.AnalyzeIndex for DefaultAnalyzer and IDAnalyzer
AnalyzeIndex(an, v) ==
  IF an = "ID" THEN <<v>> ELSE Whitespace(DefaultNormalizer(v))

\* Analyzer.AnalyzeSearch: both analyzers use the same tokenizers on both paths
AnalyzeSearch(an, v) ==
  IF an = "ID" THEN <<v>> ELSE Whitespace(DefaultNormalizer(v))

\* analyzer resolution of Index and deleteLocked
IndexAnalyzer(pf, field) ==
  IF field \in DOMAIN pf THEN pf[field]
  ELSE IF field = IDField \/ field = "id" \/ field = "uuid" THEN "ID"
       ELSE "Default"

\* analyzer resolution of deleteLocked
DeleteAnalyzer(pf, field) ==
  IF field \in DOMAIN pf THEN pf[field]
  ELSE IF field = IDField \/ field = "id" \/ field = "uuid" THEN "ID"
       ELSE "Default"

\* Terms resolving the analyzer the way Index does
SearchAnalyzer_IDFallback(pf, field) ==
  IF field \in DOMAIN pf THEN pf[field]
  ELSE IF field = IDField \/ field = "id" \/ field = "uuid" THEN "ID"
       ELSE "Default"

\* analyzer resolution of Terms
SearchAnalyzer(pf, field) ==
  IF field \in DOMAIN pf THEN pf[field] ELSE "Default"

\* --------------------------------------------------------------- helpers
\* the values of a map
MapValues(m) == {m[k] : k \in DOMAIN m}

EmptyMap == [x \in {} |-> << >>]

\* m[k] = x of a Go map
MapPut(m, k, x) == [y \in DOMAIN m \cup {k} |-> IF y = k THEN x ELSE m[y]]

\* delete(m, k) of a Go map
MapDelete(m, k) == [y \in DOMAIN m \ {k} |-> m[y]]

\* elements of a sequence
Range(s) == {s[i] : i \in 1..Len(s)}

\* postings[k][v], the empty list when the field or the term is unknown
PostingList(p, k, v) ==
  IF k \in DOMAIN p /\ v \in DOMAIN p[k] THEN p[k][v] ELSE << >>

IsLive(fwd, did) == did >= 0 /\ did < Len(fwd) /\ fwd[did + 1] # Nil


\* ------------------------------------------------------------- postings
\* addPostings without the tail check: every token occurrence appends
AddPostings_NoDedupe(p, k, v, did) ==
  LET pk == IF k \in DOMAIN p THEN p[k] ELSE EmptyMap
      current == IF v \in DOMAIN pk THEN pk[v] ELSE << >>
  IN  MapPut(p, k, MapPut(pk, v, Append(current, did)))

\* addPostings with the tail check inverted: a new DocID is not appended to
\* a list that already has entries
AddPostings_InvertedCheck(p, k, v, did) ==
  LET pk == IF k \in DOMAIN p THEN p[k] ELSE EmptyMap
      current == IF v \in DOMAIN pk THEN pk[v] ELSE << >>
  IN  IF v \notin DOMAIN pk \/ Len(current) = 0
      THEN MapPut(p, k, MapPut(pk, v, <<did>>))
      ELSE IF current[Len(current)] = did
           THEN MapPut(p, k, MapPut(pk, v, Append(current, did)))
           ELSE MapPut(p, k, pk)

\* addPostings: append did unless it already is the tail of the list
AddPostings(p, k, v, did) ==
  LET pk == IF k \in DOMAIN p THEN p[k] ELSE EmptyMap
      current == IF v \in DOMAIN pk THEN pk[v] ELSE << >>
  IN  IF v \notin DOMAIN pk \/ Len(current) = 0
      THEN MapPut(p, k, MapPut(pk, v, <<did>>))
      ELSE IF current[Len(current)] # did
           THEN MapPut(p, k, MapPut(pk, v, Append(current, did)))
           ELSE MapPut(p, k, pk)

\* the predicate deletePostings hands to sort.Search
SearchPred(current, i, did) == current[i + 1] <= did

\* sort.Search(n, f) of the Go standard library: binary search on [i, j)
RECURSIVE SearchLoop(_, _, _, _)
SearchLoop(i, j, current, did) ==
  IF i < j
  THEN LET h == (i + j) \div 2
       IN  IF ~SearchPred(current, h, did)
           THEN SearchLoop(h + 1, j, current, did)
           ELSE SearchLoop(i, h, current, did)
  ELSE i

\* deletePostings without the current[found] == did check: it cuts whatever
\* element the search lands on
DeletePostings_NoEqualCheck(p, k, v, did) ==
  IF k \notin DOMAIN p THEN p
  ELSE LET pk == p[k]
       IN  IF v \notin DOMAIN pk \/ Len(pk[v]) = 0 THEN p
           ELSE LET current == pk[v]
                    found == SearchLoop(0, Len(current), current, did)
                IN  IF found < Len(current)
                    THEN MapPut(p, k, MapPut(pk, v,
                           SubSeq(current, 1, found)
                             \o SubSeq(current, found + 2, Len(current))))
                    ELSE p

\* deletePostings: locate did with sort.Search and cut it out of the slice
DeletePostings(p, k, v, did) ==
  IF k \notin DOMAIN p THEN p
  ELSE LET pk == p[k]
       IN  IF v \notin DOMAIN pk \/ Len(pk[v]) = 0 THEN p
           ELSE LET current == pk[v]
                    found == SearchLoop(0, Len(current), current, did)
                IN  IF found < Len(current) /\ current[found + 1] = did
                    THEN MapPut(p, k, MapPut(pk, v,
                           SubSeq(current, 1, found)
                             \o SubSeq(current, found + 2, Len(current))))
                    ELSE p

\* for _, t := range tokens { m.addPostings(field, t, did) }
RECURSIVE AddTokens(_, _, _, _)
AddTokens(p, field, tokens, did) ==
  IF tokens = << >> THEN p
  ELSE AddTokens(AddPostings(p, field, Head(tokens), did),
                 field, Tail(tokens), did)

\* the loop over the values posting each value as it is, not its tokens
RECURSIVE AddValues_NotAnalysed(_, _, _, _, _)
AddValues_NotAnalysed(p, field, an, values, did) ==
  IF values = << >> THEN p
  ELSE AddValues_NotAnalysed(AddPostings(p, field, Head(values), did),
                             field, an, Tail(values), did)

\* for _, v := range value { tokens := analyzer.AnalyzeIndex(v) ... }
RECURSIVE AddValues(_, _, _, _, _)
AddValues(p, field, an, values, did) ==
  IF values = << >> THEN p
  ELSE AddValues(AddTokens(p, field, AnalyzeIndex(an, Head(values)), did),
                 field, an, Tail(values), did)

\* for _, t := range tokens { m.deletePostings(field, t, id) }
RECURSIVE DelTokens(_, _, _, _)
DelTokens(p, field, tokens, did) ==
  IF tokens = << >> THEN p
  ELSE DelTokens(DeletePostings(p, field, Head(tokens), did),
                 field, Tail(tokens), did)

RECURSIVE DelValues(_, _, _, _, _)
DelValues(p, field, an, values, did) ==
  IF values = << >> THEN p
  ELSE DelValues(DelTokens(p, field, AnalyzeIndex(an, Head(values)), did),
                 field, an, Tail(values), did)

\* for _, v := range value { m.forwardByID[v] = int32(did) }
RECURSIVE SetIDs(_, _, _)
SetIDs(fbi, values, did) ==
  IF values = << >> THEN fbi
  ELSE SetIDs(MapPut(fbi, Head(values), did), Tail(values), did)

\* for _, v := range value { delete(m.forwardByID, v) }
RECURSIVE DeleteIDs(_, _)
DeleteIDs(fbi, values) ==
  IF values = << >> THEN fbi
  ELSE DeleteIDs(MapDelete(fbi, Head(values)), Tail(values))

\* ------------------------------------------------------------ operations
\* a DocID allocator that hands out the first tombstoned slot again
NextDocID_Reuse(fwd) ==
  IF \E i \in 1..Len(fwd) : fwd[i] = Nil
  THEN (CHOOSE i \in 1..Len(fwd) :
          fwd[i] = Nil /\ \A j \in 1..(i - 1) : fwd[j] # Nil) - 1
  ELSE Len(fwd)

\* did := len(m.forward)
NextDocID(fwd) == Len(fwd)

\* the body of Index's loop over the fields of one document
RECURSIVE IndexFields(_, _, _, _, _)
IndexFields(pf, st, fields, order, did) ==
  IF order = << >> THEN st
  ELSE LET field == Head(order)
       IN  IF field \notin DOMAIN fields
           THEN IndexFields(pf, st, fields, Tail(order), did)
           ELSE IndexFields(pf,
                  [st EXCEPT
                     !.forwardByID =
                        IF field = IDField THEN SetIDs(@, fields[field], did)
                        ELSE @,
                     !.postings =
                        AddValues(@, field, IndexAnalyzer(pf, field),
                                  fields[field], did)],
                  fields, Tail(order), did)

\* the body of Index's loop over docs, for one document
IndexDoc(pf, st, d) ==
  LET did == NextDocID(st.forward)
  IN  IndexFields(pf,
        [st EXCEPT !.forward = Append(@, d), !.dids = Append(@, did)],
        IndexableFields(d), FieldOrder, did)

RECURSIVE IndexDocs(_, _, _)
IndexDocs(pf, st, docs) ==
  IF docs = << >> THEN st
  ELSE IndexDocs(pf, IndexDoc(pf, st, Head(docs)), Tail(docs))

\* the body of deleteLocked's loop over the fields of the document
RECURSIVE DeleteFields(_, _, _, _, _)
DeleteFields(pf, st, fields, order, id) ==
  IF order = << >> THEN st
  ELSE LET field == Head(order)
       IN  IF field \notin DOMAIN fields
           THEN DeleteFields(pf, st, fields, Tail(order), id)
           ELSE DeleteFields(pf,
                  [st EXCEPT
                     !.forwardByID =
                        IF field = IDField THEN DeleteIDs(@, fields[field])
                        ELSE @,
                     !.postings =
                        DelValues(@, field, DeleteAnalyzer(pf, field),
                                  fields[field], id)],
                  fields, Tail(order), id)

\* deleteLocked that takes the slot out of forward instead of writing nil
DeleteLocked_RemoveSlot(pf, st, id) ==
  IF id < 0 \/ id >= Len(st.forward) \/ st.forward[id + 1] = Nil
  THEN [st EXCEPT !.panic = TRUE]
  ELSE LET after == DeleteFields(pf, st, IndexableFields(st.forward[id + 1]),
                                 FieldOrder, id)
       IN  [after EXCEPT !.forward = SubSeq(@, 1, id) \o
                                     SubSeq(@, id + 2, Len(@))]

\* deleteLocked without the final m.forward[id] = nil
DeleteLocked_NoTombstone(pf, st, id) ==
  IF id < 0 \/ id >= Len(st.forward) \/ st.forward[id + 1] = Nil
  THEN [st EXCEPT !.panic = TRUE]
  ELSE DeleteFields(pf, st, IndexableFields(st.forward[id + 1]),
                    FieldOrder, id)

\* deleteLocked: m.forward[id] panics when id is out of range, and
\* d.IndexableFields() panics when the slot holds a nil Document; both happen
\* before anything is changed
DeleteLocked(pf, st, id) ==
  IF id < 0 \/ id >= Len(st.forward) \/ st.forward[id + 1] = Nil
  THEN [st EXCEPT !.panic = TRUE]
  ELSE LET after == DeleteFields(pf, st, IndexableFields(st.forward[id + 1]),
                                 FieldOrder, id)
       IN  [after EXCEPT !.forward[id + 1] = Nil]

\* the state the write-locked operations work on
Store ==
  [forward |-> forward, forwardByID |-> forwardByID, postings |-> postings,
   dids |-> << >>, panic |-> FALSE]


\* --------------------------------------------------------------- queries
\* iq.NO_MORE
NO_MORE == 2147483647

\* iq.Term(n, label, postings): a term iterator over a posting list; it
\* carries the collection size, its label and the list
Term(n, label, list) == [total |-> n, label |-> label, list |-> list]

\* NewTermQuery that counts the live documents instead of the slots
NewTermQuery_LiveCount(fwd, p, field, term) ==
  Term(Cardinality({i \in 1..Len(fwd) : fwd[i] # Nil}), <<field, ":", term>>,
       IF field \in DOMAIN p /\ term \in DOMAIN p[field] THEN p[field][term]
       ELSE << >>)

\* NewTermQuery returning the empty list on every path
NewTermQuery_EmptyList(fwd, p, field, term) ==
  Term(Len(fwd), <<field, ":", term>>, << >>)

\* NewTermQuery: the label is field ":" term, the list is empty when the
\* field or the term is unknown
NewTermQuery(fwd, p, field, term) ==
  IF field \notin DOMAIN p
  THEN Term(Len(fwd), <<field, ":", term>>, << >>)
  ELSE IF term \notin DOMAIN p[field]
       THEN Term(Len(fwd), <<field, ":", term>>, << >>)
       ELSE Term(Len(fwd), <<field, ":", term>>, p[field][term])

\* Query.Next() of a term iterator: step the cursor (0-based, -1 before the
\* first call) through the list; the result is <<new cursor, DocID>>
QueryNext(q, cursor) ==
  IF cursor + 1 >= Len(q.list) THEN <<cursor + 1, NO_MORE>>
  ELSE <<cursor + 1, q.list[cursor + 2]>>

\* Foreach: drive the iterator, skip tombstones, invoke the callback; calls
\* is the list of callback invocations so far.  m.forward[did] panics when
\* the iterator yields a DocID outside forward.
\* Foreach without the doc == nil check
RECURSIVE ForeachFrom_NoSkip(_, _, _, _)
ForeachFrom_NoSkip(fwd, q, cursor, calls) ==
  LET nx == QueryNext(q, cursor)
      did == nx[2]
  IN  IF did = NO_MORE THEN [calls |-> calls, panic |-> FALSE]
      ELSE IF did < 0 \/ did >= Len(fwd)
           THEN [calls |-> calls, panic |-> TRUE]
           ELSE ForeachFrom_NoSkip(fwd, q, nx[1],
                  Append(calls, [did |-> did, doc |-> fwd[did + 1]]))

RECURSIVE ForeachFrom(_, _, _, _)
ForeachFrom(fwd, q, cursor, calls) ==
  LET nx == QueryNext(q, cursor)
      did == nx[2]
  IN  IF did = NO_MORE THEN [calls |-> calls, panic |-> FALSE]
      ELSE IF did < 0 \/ did >= Len(fwd)
           THEN [calls |-> calls, panic |-> TRUE]
           ELSE IF fwd[did + 1] = Nil
                THEN ForeachFrom(fwd, q, nx[1], calls)
                ELSE ForeachFrom(fwd, q, nx[1],
                       Append(calls, [did |-> did, doc |-> fwd[did + 1]]))

ForeachCalls(fwd, q) == ForeachFrom(fwd, q, -1, << >>)

\* --------------------------------------------------------------- actions
\* Index, Delete and DeleteByID run under the exclusive lock, so each is one
\* step.  A panic is not recovered by the package: it ends the run, and no
\* further call is made once fault is "panic".
\* what the last call was, its arguments and what it returned
NoCall ==
  [op |-> "none", did |-> -1, ext |-> << >>, docs |-> << >>, dids |-> << >>,
   field |-> "", term |-> << >>, list |-> << >>, ret |-> Nil,
   calls |-> << >>]

\* the per-field analyzer map NewMemOnlyIndex is constructed with
PerFieldChoices == {[country |-> "ID"]}

\* the external ids callers ask for
ExtIDs == {idx, idy}

\* the (field, term) pairs callers query
TermPairs ==
  {<<"names", va>>, <<"names", vb>>, <<"_id", idx>>, <<"country", vAa>>,
   <<"city", va>>}

\* all sequences over S of length at most n
RECURSIVE SeqsUpTo(_, _)
SeqsUpTo(S, n) ==
  IF n = 0 THEN {<< >>}
  ELSE LET shorter == SeqsUpTo(S, n - 1)
       IN  shorter \cup {Append(s, x) : s \in shorter, x \in S}

\* the DocID sequences a query iterator may yield: Next() moves forward, so
\* they are strictly increasing
Ascending(s) == \A i \in 1..(Len(s) - 1) : s[i] < s[i + 1]

QueryLists == {s \in SeqsUpTo(0..(MaxDocs - 1), MaxQueryLen) : Ascending(s)}

\* ------------------------------------------------------------------ TopN
\* Query.Score() at the cursor: the iterator reports q.scores[i] with the
\* i-th DocID of q.list
QueryScore(q, cursor) == q.scores[cursor + 1]

\* the rescoring callbacks TopN is called with: none, or the one of the
\* package example, which raises the score of some documents
Rescorers == {"nil", "boost"}

Rescore(cb, did, score, doc) ==
  IF cb = "boost" /\ doc = "D1" THEN score + 1 ELSE score

\* the insertion that appends every hit, whatever len(scored) and limit
TopNInsert_NoLimit(scored, hit, limit) == Append(scored, hit)

\* the insertion with <= in both comparisons: an equal-scored candidate
\* displaces an incumbent
TopNInsert_TieDisplaces(scored, hit, limit) ==
  LET doInsert == \/ Len(scored) < limit
                  \/ scored[Len(scored)].score <= hit.score
  IN  IF ~doInsert THEN scored
      ELSE LET appended == IF Len(scored) < limit THEN Append(scored, hit)
                           ELSE scored
               lower == {i \in 1..Len(appended) :
                           appended[i].score <= hit.score}
           IN  IF lower = {} THEN appended
               ELSE LET at == CHOOSE i \in lower : \A j \in lower : i <= j
                    IN  [j \in 1..Len(appended) |->
                           IF j < at THEN appended[j]
                           ELSE IF j = at THEN hit ELSE appended[j - 1]]

\* the insertion without the shifting loop: the candidate is appended, or
\* overwrites the tail of a full list
TopNInsert_NoShift(scored, hit, limit) ==
  LET doInsert == \/ Len(scored) < limit
                  \/ scored[Len(scored)].score < hit.score
  IN  IF ~doInsert THEN scored
      ELSE IF Len(scored) < limit THEN Append(scored, hit)
           ELSE [scored EXCEPT ![Len(scored)] = hit]

\* TopN's "just keep the list sorted" block: decide doInsert, append while
\* the list is short, then put the hit before the first entry with a lower
\* score, shifting the rest right by one (copy drops the last element)
TopNInsert(scored, hit, limit) ==
  LET doInsert == \/ Len(scored) < limit
                  \/ scored[Len(scored)].score < hit.score
  IN  IF ~doInsert THEN scored
      ELSE LET appended == IF Len(scored) < limit THEN Append(scored, hit)
                           ELSE scored
               lower == {i \in 1..Len(appended) :
                           appended[i].score < hit.score}
           IN  IF lower = {} THEN appended
               ELSE LET at == CHOOSE i \in lower : \A j \in lower : i <= j
                    IN  [j \in 1..Len(appended) |->
                           IF j < at THEN appended[j]
                           ELSE IF j = at THEN hit ELSE appended[j - 1]]

\* the callback with the rescoring done before the limit == 0 return
TopNCallback_RescoreFirst(st, did, originalScore, doc) ==
  LET counted == [st EXCEPT !.total = @ + 1,
                            !.cbcalls = IF st.cb # "nil" THEN Append(@, did)
                                        ELSE @]
      score == IF st.cb # "nil" THEN Rescore(st.cb, did, originalScore, doc)
               ELSE originalScore
  IN  IF st.limit = 0 THEN counted
      ELSE [counted EXCEPT
              !.scored = TopNInsert(@, [score |-> score, did |-> did,
                                         doc |-> doc], st.limit)]

\* the callback TopN hands to Foreach, for one match
TopNCallback(st, did, originalScore, doc) ==
  LET counted == [st EXCEPT !.total = @ + 1]
  IN  IF st.limit = 0 THEN counted
      ELSE LET score == IF st.cb # "nil"
                        THEN Rescore(st.cb, did, originalScore, doc)
                        ELSE originalScore
           IN  [counted EXCEPT
                  !.cbcalls = IF st.cb # "nil" THEN Append(@, did) ELSE @,
                  !.scored = TopNInsert(@, [score |-> score, did |-> did,
                                             doc |-> doc], st.limit)]

\* no TopN call in progress
TopNIdle ==
  [pc |-> "idle", limit |-> 0, cb |-> "nil", q |-> Term(0, << >>, << >>),
   field |-> "", term |-> << >>, scores |-> << >>, cursor |-> -1, total |-> 0, scored |-> << >>,
   cbcalls |-> << >>, hits |-> << >>]

\* ------------------------------------------------- goroutines and lock
Writers == {"w1", "w2"}

Readers == {"r1"}

Threads == Writers \cup Readers

NoThread == "none"

\* sync.RWMutex: w is the writer that holds the inner mutex (it has
\* announced itself and waits for the readers to leave, or it has the lock),
\* active says that it has the lock, readers counts the read locks held by
\* each goroutine
LockFree == [w |-> NoThread, active |-> FALSE, readers |-> [t \in Threads |-> 0]]

\* the locals of a goroutine that is in no call
LocIdle ==
  [op |-> "none", docs |-> << >>, doc |-> Nil, did |-> -1, fields |-> << >>,
   ext |-> << >>, ok |-> FALSE, field |-> "", term |-> << >>,
   tokens |-> << >>, inTerms |-> FALSE, epoch |-> -1,
   captured |-> Term(0, << >>, << >>), queries |-> << >>, ret |-> Nil]

\* a slice of int32: the array it points into (0: none), its len and cap
NilSlice == [arr |-> 0, len |-> 0, cap |-> 0]

SliceInit ==
  /\ backing = << >>
  /\ pv = [ok |-> FALSE, s |-> NilSlice]
  /\ held = {}

\* no Shingles run
ShinglesIdle ==
  [pc |-> "idle", n |-> 0, tokens |-> << >>, i |-> 0, out |-> << >>,
   test |-> FALSE, want |-> << >>]

\* NewDirIndex(root, 0, perField) on an empty directory: fdCache maps file
\* names to descriptors, open is the set of descriptors the process has
\* open, files maps the names of the files that exist to their DocIDs, err
\* says whether the last add returned an error
DirNone ==
  [maxOpenFD |-> 0, fdCache |-> EmptyMap, open |-> {}, files |-> EmptyMap,
   err |-> FALSE]

ExtraInit ==
  /\ shingles = ShinglesIdle
  /\ dir = DirNone

ConcInit ==
  /\ lock = LockFree
  /\ pc = [t \in Threads |-> "idle"]
  /\ loc = [t \in Threads |-> LocIdle]
  /\ stable = [forward |-> << >>, postings |-> EmptyMap, commit |-> 0]
  /\ acq = << >>
  /\ writes = 0

\* NewMemOnlyIndex(perField)
Init ==
  /\ perField \in PerFieldChoices
  /\ forward = << >>
  /\ forwardByID = EmptyMap
  /\ postings = EmptyMap
  /\ last = NoCall
  /\ fault = "none"
  /\ topn = TopNIdle
  /\ ConcInit
  /\ SliceInit
  /\ ExtraInit

\* Index(docs...)
Index(docs) ==
  /\ fault = "none"
  /\ Len(forward) + Len(docs) <= MaxDocs
  /\ LET st == IndexDocs(perField, Store, docs)
     IN  /\ forward' = st.forward
         /\ forwardByID' = st.forwardByID
         /\ postings' = st.postings
         /\ last' = [NoCall EXCEPT !.op = "Index", !.docs = docs,
                                   !.dids = st.dids]
  /\ UNCHANGED <<perField, fault>>
  /\ UNCHANGED others

\* Delete(id)
Delete(id) ==
  /\ fault = "none"
  /\ LET st == DeleteLocked(perField, Store, id)
     IN  /\ forward' = st.forward
         /\ forwardByID' = st.forwardByID
         /\ postings' = st.postings
         /\ fault' = IF st.panic THEN "panic" ELSE "none"
         /\ last' = [NoCall EXCEPT !.op = "Delete", !.did = id]
  /\ UNCHANGED perField
  /\ UNCHANGED others

\* id := m.forwardByID[uuid] without the ok: a missing key reads as the
\* zero value 0
LookupID_ZeroValue(fbi, uuid) ==
  IF uuid \in DOMAIN fbi THEN [ok |-> TRUE, id |-> fbi[uuid]]
  ELSE [ok |-> TRUE, id |-> 0]

\* id, ok := m.forwardByID[uuid]
LookupID(fbi, uuid) ==
  IF uuid \in DOMAIN fbi THEN [ok |-> TRUE, id |-> fbi[uuid]]
  ELSE [ok |-> FALSE, id |-> -1]

\* what Get(id) returns: m.forward[id] panics when id is out of range
GetResult(fwd, id) ==
  IF id >= 0 /\ id < Len(fwd) THEN [ret |-> fwd[id + 1], panic |-> FALSE]
  ELSE [ret |-> Nil, panic |-> TRUE]

\* what GetByID(uuid) returns
GetByIDResult(fwd, fbi, uuid) ==
  LET l == LookupID(fbi, uuid)
  IN  IF l.ok THEN GetResult(fwd, l.id) ELSE [ret |-> Nil, panic |-> FALSE]

\* DeleteByID(uuid)
DeleteByID(uuid) ==
  /\ fault = "none"
  /\ LET l == LookupID(forwardByID, uuid)
         st == IF l.ok THEN DeleteLocked(perField, Store, l.id) ELSE Store
     IN  /\ forward' = st.forward
         /\ forwardByID' = st.forwardByID
         /\ postings' = st.postings
         /\ fault' = IF st.panic THEN "panic" ELSE "none"
         /\ last' = [NoCall EXCEPT !.op = "DeleteByID", !.ext = uuid,
                       !.did = l.id]
  /\ UNCHANGED perField
  /\ UNCHANGED others

\* Get(id)
Get(id) ==
  /\ fault = "none"
  /\ LET r == GetResult(forward, id)
     IN  /\ fault' = IF r.panic THEN "panic" ELSE "none"
         /\ last' = [NoCall EXCEPT !.op = "Get", !.did = id, !.ret = r.ret]
  /\ UNCHANGED <<perField, forward, forwardByID, postings>>
  /\ UNCHANGED others

\* GetByID(uuid)
GetByID(uuid) ==
  /\ fault = "none"
  /\ LET r == GetByIDResult(forward, forwardByID, uuid)
     IN  /\ fault' = IF r.panic THEN "panic" ELSE "none"
         /\ last' = [NoCall EXCEPT !.op = "GetByID", !.ext = uuid,
                       !.did = LookupID(forwardByID, uuid).id,
                       !.ret = r.ret]
  /\ UNCHANGED <<perField, forward, forwardByID, postings>>
  /\ UNCHANGED others

\* Foreach(query, cb), no writer running while it iterates
Foreach(op, field, term, q) ==
  /\ fault = "none"
  /\ LET r == ForeachCalls(forward, q)
     IN  /\ fault' = IF r.panic THEN "panic" ELSE "none"
         /\ last' = [NoCall EXCEPT !.op = op, !.field = field,
                       !.term = term, !.list = q.list, !.calls = r.calls]
  /\ UNCHANGED <<perField, forward, forwardByID, postings>>
  /\ UNCHANGED others

\* Foreach over the term query NewTermQuery(field, term) returns
ForeachTerm(field, term) ==
  Foreach("ForeachTerm", field, term,
          NewTermQuery(forward, postings, field, term))

\* Foreach over a query iterator that yields the DocIDs of list
ForeachQuery(list) ==
  Foreach("ForeachQuery", "", << >>, Term(Len(forward), << >>, list))

\* Terms' loop: queries = append(queries, m.NewTermQuery(field, t))
RECURSIVE TermsQueries(_, _, _, _)
TermsQueries(fwd, p, field, tokens) ==
  IF tokens = << >> THEN << >>
  ELSE <<NewTermQuery(fwd, p, field, Head(tokens))>>
       \o TermsQueries(fwd, p, field, Tail(tokens))

\* Terms(field, term), no writer running: calls is the list of queries
Terms(field, text) ==
  /\ fault = "none"
  /\ LET tokens == AnalyzeSearch(SearchAnalyzer(perField, field), text)
     IN  last' = [NoCall EXCEPT !.op = "Terms", !.field = field, !.term = text,
                                !.calls = TermsQueries(forward, postings,
                                                       field, tokens)]
  /\ UNCHANGED <<perField, forward, forwardByID, postings, fault>>
  /\ UNCHANGED others

\* the (field, text) pairs Terms is called with: the id-shaped field names,
\* a field with a registered analyzer and a field with none
TermsInputs ==
  {<<"_id", idX>>, <<"id", idX>>, <<"uuid", idX>>, <<"country", idX>>,
   <<"names", idX>>}

Next ==
  \/ \E docs \in SeqsUpTo(Docs, MaxBatch) : Index(docs)
  \/ \E id \in 0..MaxDocs : Delete(id)
  \/ \E uuid \in ExtIDs : DeleteByID(uuid)
  \/ \E id \in 0..MaxDocs : Get(id)
  \/ \E uuid \in ExtIDs : GetByID(uuid)
  \/ \E ft \in TermPairs : ForeachTerm(ft[1], ft[2])
  \/ \E list \in QueryLists : ForeachQuery(list)
  \/ \E ft \in TermsInputs : Terms(ft[1], ft[2])

Spec == Init /\ [][Next]_vars

\* ------------------------------------------------- TopN, match by match
\* deleteLocked for each id of ids, in order
RECURSIVE DeleteAll(_, _, _)
DeleteAll(pf, st, ids) ==
  IF ids = << >> THEN st
  ELSE DeleteAll(pf, DeleteLocked(pf, st, Head(ids)), Tail(ids))

\* the documents of the index TopN runs on
TopNDocs == [i \in 1..MaxDocs |-> IF i % 2 = 1 THEN "D1" ELSE "D2"]

\* the members of S in ascending order
RECURSIVE SortedSeq(_)
SortedSeq(S) ==
  IF S = {} THEN << >>
  ELSE LET m == CHOOSE x \in S : \A y \in S : x <= y
       IN  <<m>> \o SortedSeq(S \ {m})

\* an index after Index(TopNDocs...) and Delete of some of the documents
InitTopN ==
  /\ perField \in PerFieldChoices
  /\ \E dels \in SUBSET (0..(MaxDocs - 1)) :
       LET empty == [forward |-> << >>, forwardByID |-> EmptyMap,
                     postings |-> EmptyMap, dids |-> << >>, panic |-> FALSE]
           st == DeleteAll(perField, IndexDocs(perField, empty, TopNDocs),
                           SortedSeq(dels))
       IN  /\ forward = st.forward
           /\ forwardByID = st.forwardByID
           /\ postings = st.postings
  /\ last = NoCall
  /\ fault = "none"
  /\ topn = TopNIdle
  /\ ConcInit
  /\ SliceInit
  /\ ExtraInit

\* TopN(limit, query, cb) is entered: out and scored are empty
TopNCall(limit, list, scores, cb) ==
  /\ fault = "none"
  /\ topn.pc = "idle"
  /\ topn' = [TopNIdle EXCEPT !.pc = "run", !.limit = limit, !.cb = cb,
                              !.q = Term(Len(forward), << >>, list),
                              !.scores = scores]
  /\ UNCHANGED <<perField, forward, forwardByID, postings, last, fault>>
  /\ UNCHANGED <<concVars, sliceVars, extraVars>>

\* TopN(limit, m.NewTermQuery(field, term), cb); every match of a term query
\* has the same score here
TopNCallTerm(limit, field, term, cb) ==
  /\ fault = "none"
  /\ topn.pc = "idle"
  /\ LET q == NewTermQuery(forward, postings, field, term)
     IN  topn' = [TopNIdle EXCEPT !.pc = "run", !.limit = limit, !.cb = cb,
                                  !.q = q, !.field = field, !.term = term,
                                  !.scores = [i \in 1..Len(q.list) |-> 1]]
  /\ UNCHANGED <<perField, forward, forwardByID, postings, last, fault>>
  /\ UNCHANGED <<concVars, sliceVars, extraVars>>

\* one round of Foreach's loop inside TopN: query.Next(), the tombstone
\* check and the callback; NO_MORE ends the loop and out.Hits = scored
TopNNext ==
  /\ fault = "none"
  /\ topn.pc = "run"
  /\ LET nx == QueryNext(topn.q, topn.cursor)
         did == nx[2]
     IN  IF did = NO_MORE
         THEN /\ topn' = [topn EXCEPT !.pc = "done", !.hits = topn.scored]
              /\ fault' = fault
         ELSE IF did < 0 \/ did >= Len(forward)
              THEN /\ topn' = topn
                   /\ fault' = "panic"
              ELSE /\ fault' = fault
                   /\ topn' =
                        IF forward[did + 1] = Nil
                        THEN [topn EXCEPT !.cursor = nx[1]]
                        ELSE TopNCallback([topn EXCEPT !.cursor = nx[1]], did,
                               QueryScore(topn, nx[1]),
                               forward[did + 1])
  /\ UNCHANGED <<perField, forward, forwardByID, postings, last>>
  /\ UNCHANGED <<concVars, sliceVars, extraVars>>

\* the caller takes the result
TopNReturn ==
  /\ topn.pc = "done"
  /\ topn' = TopNIdle
  /\ UNCHANGED <<perField, forward, forwardByID, postings, last, fault>>
  /\ UNCHANGED <<concVars, sliceVars, extraVars>>

\* the queries TopN is called with: ascending DocIDs, a score for each
ScoredQueries ==
  UNION {{<<SortedSeq(S), scores>> :
            scores \in [1..Cardinality(S) -> 1..MaxScore]} :
         S \in SUBSET (0..(MaxDocs - 1))}

\* the (field, term) pairs TopN is called with: known ones, an unknown
\* field, an unknown term of a known field
TopNTermPairs == TermPairs \cup {<<"names", idx>>}

NextTopN ==
  \/ /\ topn.pc = "idle"
     /\ \E limit \in 0..MaxLimit, cb \in Rescorers, ls \in ScoredQueries :
          TopNCall(limit, ls[1], ls[2], cb)
  \/ \E limit \in 0..MaxLimit, cb \in Rescorers, ft \in TopNTermPairs :
       TopNCallTerm(limit, ft[1], ft[2], cb)
  \/ TopNNext
  \/ TopNReturn

SpecTopN == InitTopN /\ [][NextTopN]_vars

\* ---------------------------------------- goroutines, statement by statement
\* Every goroutine is in one call at a time; pc[t] names the statement it
\* executes next.  A map is ranged over in FieldOrder.  A panic ends the
\* program.

\* sync.RWMutex.RLock proceeds unless a writer has announced itself
ReaderCanEnter_IgnoreWriter(lk) == TRUE

ReaderCanEnter(lk) == lk.w = NoThread

\* sync.RWMutex.Lock first takes the mutex that serialises the writers
WriterCanAnnounce_NoMutex(lk) == TRUE

WriterCanAnnounce(lk) == lk.w = NoThread

\* ... and then waits until the readers that hold the lock have left
WriterCanEnter_IgnoreReaders(lk) == TRUE

WriterCanEnter(lk) == \A r \in Threads : lk.readers[r] = 0

RLockBy(lk, t) == [lk EXCEPT !.readers[t] = @ + 1]

RUnlockBy(lk, t) == [lk EXCEPT !.readers[t] = @ - 1]

\* the documents of the calls in ConcBatches, the ids of ConcDeleteIDs, ...
ConcBatches == {<<"D1", "D2">>, <<"D2">>}

ConcDeleteIDs == {0}

ConcExtIDs == {idx}

ConcGetIDs == {0}

ConcTerms == {<<"names", va>>}

ConcTexts == {<<"names", vab>>}

\* the fields of a document in the order they are ranged over
FieldsOf(d) == SelectSeq(FieldOrder, LAMBDA f : f \in DOMAIN IndexableFields(d))

\* documents of the Index calls that are under way and not yet appended
PendingDocs == {ti \in Writers \X (1..MaxBatch) : ti[2] <= Len(loc[ti[1]].docs)}

ConcInitAll ==
  /\ perField \in PerFieldChoices
  /\ forward = << >>
  /\ forwardByID = EmptyMap
  /\ postings = EmptyMap
  /\ last = NoCall
  /\ fault = "none"
  /\ topn = TopNIdle
  /\ ConcInit
  /\ SliceInit
  /\ ExtraInit

\* the entry of acq that the Index call of goroutine t made when it got the
\* lock (raced: another Index call was under way at that moment)
AcqOf(a, t) ==
  CHOOSE i \in 1..Len(a) : a[i].t = t /\ \A j \in (i + 1)..Len(a) : a[j].t # t

\* a goroutine calls Index(docs...)
CallIndex(t, docs) ==
  /\ fault = "none" /\ pc[t] = "idle" /\ t \in Writers
  /\ writes < MaxWrites
  /\ Len(forward) + Cardinality(PendingDocs) + Len(docs) <= MaxDocs
  /\ pc' = [pc EXCEPT ![t] = "Lock"]
  /\ loc' = [loc EXCEPT ![t] = [LocIdle EXCEPT !.op = "Index", !.docs = docs]]
  /\ writes' = writes + 1
  /\ UNCHANGED <<perField, forward, forwardByID, postings, last, fault, topn,
                 sliceVars, extraVars,
                 lock, stable, acq>>

\* a goroutine calls Delete(id)
CallDelete(t, id) ==
  /\ fault = "none" /\ pc[t] = "idle" /\ t \in Writers
  /\ writes < MaxWrites
  /\ pc' = [pc EXCEPT ![t] = "Lock"]
  /\ loc' = [loc EXCEPT ![t] = [LocIdle EXCEPT !.op = "Delete", !.did = id]]
  /\ writes' = writes + 1
  /\ UNCHANGED <<perField, forward, forwardByID, postings, last, fault, topn,
                 sliceVars, extraVars,
                 lock, stable, acq>>

\* a goroutine calls DeleteByID(uuid)
CallDeleteByID(t, uuid) ==
  /\ fault = "none" /\ pc[t] = "idle" /\ t \in Writers
  /\ writes < MaxWrites
  /\ pc' = [pc EXCEPT ![t] = "Lock"]
  /\ loc' = [loc EXCEPT ![t] = [LocIdle EXCEPT !.op = "DeleteByID", !.ext = uuid]]
  /\ writes' = writes + 1
  /\ UNCHANGED <<perField, forward, forwardByID, postings, last, fault, topn,
                 sliceVars, extraVars,
                 lock, stable, acq>>

\* m.Lock(), first half: the writer takes the writers' mutex and announces
\* itself, which keeps new readers out
WLock(t) ==
  /\ fault = "none" /\ pc[t] = "Lock"
  /\ WriterCanAnnounce(lock)
  /\ lock' = [lock EXCEPT !.w = t]
  /\ pc' = [pc EXCEPT ![t] = "LockWait"]
  /\ UNCHANGED <<perField, forward, forwardByID, postings, last, fault, topn,
                 sliceVars, extraVars,
                 loc, stable, acq, writes>>

\* m.Lock(), second half: the readers have left, the writer has the lock
WEnter(t) ==
  /\ fault = "none" /\ pc[t] = "LockWait"
  /\ WriterCanEnter(lock)
  /\ lock' = [lock EXCEPT !.active = TRUE]
  /\ pc' = [pc EXCEPT ![t] =
              CASE loc[t].op = "Index" -> "IndexDoc"
                [] loc[t].op = "Delete" -> "DeleteRead"
                [] OTHER -> "DeleteLookup"]
  /\ acq' = IF loc[t].op = "Index"
            THEN Append(acq, [t |-> t, docs |-> loc[t].docs, dids |-> << >>,
                              raced |-> \E u \in Writers \ {t} :
                                          loc[u].op = "Index"])
            ELSE acq
  /\ UNCHANGED <<perField, forward, forwardByID, postings, last, fault, topn,
                 sliceVars, extraVars,
                 loc, stable, writes>>

\* Index: fields := d.IndexableFields(); did := len(m.forward);
\* m.forward = append(m.forward, d)
IndexAppend(t) ==
  /\ fault = "none" /\ pc[t] = "IndexDoc"
  /\ LET d == Head(loc[t].docs)
         did == NextDocID(forward)
     IN  /\ forward' = Append(forward, d)
         /\ loc' = [loc EXCEPT ![t].doc = d, ![t].did = did,
                               ![t].docs = Tail(@), ![t].fields = FieldsOf(d)]
         /\ acq' = [acq EXCEPT ![AcqOf(acq, t)].dids = Append(@, did)]
  /\ pc' = [pc EXCEPT ![t] = "IndexField"]
  /\ UNCHANGED <<perField, forwardByID, postings, last, fault, topn,
                 sliceVars, extraVars,
                 lock, stable, writes>>

\* Index: one round of the loop over the fields of the document
IndexField(t) ==
  /\ fault = "none" /\ pc[t] = "IndexField"
  /\ LET st == IndexFields(perField, Store, IndexableFields(loc[t].doc),
                           <<Head(loc[t].fields)>>, loc[t].did)
     IN  /\ forwardByID' = st.forwardByID
         /\ postings' = st.postings
  /\ loc' = [loc EXCEPT ![t].fields = Tail(@)]
  /\ pc' = [pc EXCEPT ![t] =
              IF Tail(loc[t].fields) # << >> THEN "IndexField"
              ELSE IF loc[t].docs # << >> THEN "IndexDoc" ELSE "Unlock"]
  /\ UNCHANGED <<perField, forward, last, fault, topn,
                 sliceVars, extraVars,
                 lock, stable, acq, writes>>

\* DeleteByID: id, ok := m.forwardByID[uuid]
DeleteLookup(t) ==
  /\ fault = "none" /\ pc[t] = "DeleteLookup"
  /\ LET l == LookupID(forwardByID, loc[t].ext)
     IN  /\ loc' = [loc EXCEPT ![t].ok = l.ok, ![t].did = l.id]
         /\ pc' = [pc EXCEPT ![t] = IF l.ok THEN "DeleteRead" ELSE "Unlock"]
  /\ UNCHANGED <<perField, forward, forwardByID, postings, last, fault, topn,
                 sliceVars, extraVars,
                 lock, stable, acq, writes>>

\* deleteLocked: d := m.forward[id]; fields := d.IndexableFields()
DeleteRead(t) ==
  /\ fault = "none" /\ pc[t] = "DeleteRead"
  /\ LET r == GetResult(forward, loc[t].did)
     IN  IF r.panic \/ r.ret = Nil
         THEN /\ fault' = "panic"
              /\ UNCHANGED <<pc, loc>>
         ELSE /\ fault' = fault
              /\ loc' = [loc EXCEPT ![t].doc = r.ret, ![t].fields = FieldsOf(r.ret)]
              /\ pc' = [pc EXCEPT ![t] = "DeleteField"]
  /\ UNCHANGED <<perField, forward, forwardByID, postings, last, topn,
                 sliceVars, extraVars,
                 lock, stable, acq, writes>>

\* deleteLocked: one round of the loop over the fields of the document
DeleteField(t) ==
  /\ fault = "none" /\ pc[t] = "DeleteField"
  /\ LET st == DeleteFields(perField, Store, IndexableFields(loc[t].doc),
                            <<Head(loc[t].fields)>>, loc[t].did)
     IN  /\ forwardByID' = st.forwardByID
         /\ postings' = st.postings
  /\ loc' = [loc EXCEPT ![t].fields = Tail(@)]
  /\ pc' = [pc EXCEPT ![t] =
              IF Tail(loc[t].fields) # << >> THEN "DeleteField" ELSE "DeleteNil"]
  /\ UNCHANGED <<perField, forward, last, fault, topn,
                 sliceVars, extraVars,
                 lock, stable, acq, writes>>

\* deleteLocked: m.forward[id] = nil
DeleteNil(t) ==
  /\ fault = "none" /\ pc[t] = "DeleteNil"
  /\ forward' = [forward EXCEPT ![loc[t].did + 1] = Nil]
  /\ pc' = [pc EXCEPT ![t] = "Unlock"]
  /\ UNCHANGED <<perField, forwardByID, postings, last, fault, topn,
                 sliceVars, extraVars,
                 lock, loc, stable, acq, writes>>

\* the deferred m.Unlock(); stable remembers the index the call leaves
WUnlock(t) ==
  /\ fault = "none" /\ pc[t] = "Unlock"
  /\ lock' = [lock EXCEPT !.w = NoThread, !.active = FALSE]
  /\ stable' = [forward |-> forward, postings |-> postings,
                commit |-> stable.commit + 1]
  /\ pc' = [pc EXCEPT ![t] = "idle"]
  /\ loc' = [loc EXCEPT ![t] = LocIdle]
  /\ UNCHANGED <<perField, forward, forwardByID, postings, last, fault, topn,
                 sliceVars, extraVars,
                 acq, writes>>

\* a goroutine calls Get(id)
CallGet(t, id) ==
  /\ fault = "none" /\ pc[t] = "idle" /\ t \in Readers
  /\ pc' = [pc EXCEPT ![t] = "GetRead"]
  /\ loc' = [loc EXCEPT ![t] = [LocIdle EXCEPT !.op = "Get", !.did = id]]
  /\ UNCHANGED <<perField, forward, forwardByID, postings, last, fault, topn,
                 sliceVars, extraVars,
                 lock, stable, acq, writes>>

\* Get: return m.forward[id]
GetRead(t) ==
  /\ fault = "none" /\ pc[t] = "GetRead"
  /\ LET r == GetResult(forward, loc[t].did)
     IN  /\ fault' = IF r.panic THEN "panic" ELSE fault
         /\ loc' = [loc EXCEPT ![t].ret = r.ret]
         /\ pc' = [pc EXCEPT ![t] = IF r.panic THEN @ ELSE "idle"]
  /\ UNCHANGED <<perField, forward, forwardByID, postings, last, topn,
                 sliceVars, extraVars,
                 lock, stable, acq, writes>>

\* a goroutine calls GetByID(uuid)
CallGetByID(t, uuid) ==
  /\ fault = "none" /\ pc[t] = "idle" /\ t \in Readers
  /\ pc' = [pc EXCEPT ![t] = "GetByIDRLock"]
  /\ loc' = [loc EXCEPT ![t] = [LocIdle EXCEPT !.op = "GetByID", !.ext = uuid]]
  /\ UNCHANGED <<perField, forward, forwardByID, postings, last, fault, topn,
                 sliceVars, extraVars,
                 lock, stable, acq, writes>>

\* GetByID: m.RLock()
GetByIDRLock(t) ==
  /\ fault = "none" /\ pc[t] = "GetByIDRLock"
  /\ ReaderCanEnter(lock)
  /\ lock' = RLockBy(lock, t)
  /\ pc' = [pc EXCEPT ![t] = "GetByIDLookup"]
  /\ UNCHANGED <<perField, forward, forwardByID, postings, last, fault, topn,
                 sliceVars, extraVars,
                 loc, stable, acq, writes>>

\* GetByID: id, ok := m.forwardByID[uuid]
GetByIDLookup(t) ==
  /\ fault = "none" /\ pc[t] = "GetByIDLookup"
  /\ LET l == LookupID(forwardByID, loc[t].ext)
     IN  loc' = [loc EXCEPT ![t].ok = l.ok, ![t].did = l.id]
  /\ pc' = [pc EXCEPT ![t] = "GetByIDRUnlock"]
  /\ UNCHANGED <<perField, forward, forwardByID, postings, last, fault, topn,
                 sliceVars, extraVars,
                 lock, stable, acq, writes>>

\* GetByID: m.RUnlock(); without an id the call returns nil
GetByIDRUnlock(t) ==
  /\ fault = "none" /\ pc[t] = "GetByIDRUnlock"
  /\ lock' = RUnlockBy(lock, t)
  /\ pc' = [pc EXCEPT ![t] = IF loc[t].ok THEN "GetByIDRead" ELSE "idle"]
  /\ UNCHANGED <<perField, forward, forwardByID, postings, last, fault, topn,
                 sliceVars, extraVars,
                 loc, stable, acq, writes>>

\* GetByID: return m.forward[id]
GetByIDRead(t) ==
  /\ fault = "none" /\ pc[t] = "GetByIDRead"
  /\ LET r == GetResult(forward, loc[t].did)
     IN  /\ fault' = IF r.panic THEN "panic" ELSE fault
         /\ loc' = [loc EXCEPT ![t].ret = r.ret]
         /\ pc' = [pc EXCEPT ![t] = IF r.panic THEN @ ELSE "idle"]
  /\ UNCHANGED <<perField, forward, forwardByID, postings, last, topn,
                 sliceVars, extraVars,
                 lock, stable, acq, writes>>

\* a goroutine calls NewTermQuery(field, term)
CallNewTermQuery(t, field, term) ==
  /\ fault = "none" /\ pc[t] = "idle" /\ t \in Readers
  /\ pc' = [pc EXCEPT ![t] = "TermRLock"]
  /\ loc' = [loc EXCEPT ![t] =
               [LocIdle EXCEPT !.op = "NewTermQuery", !.field = field,
                               !.term = term]]
  /\ UNCHANGED <<perField, forward, forwardByID, postings, last, fault, topn,
                 sliceVars, extraVars,
                 lock, stable, acq, writes>>

\* a goroutine calls Terms(field, text)
CallTerms(t, field, text) ==
  /\ fault = "none" /\ pc[t] = "idle" /\ t \in Readers
  /\ pc' = [pc EXCEPT ![t] = "TermsRLock"]
  /\ loc' = [loc EXCEPT ![t] =
               [LocIdle EXCEPT !.op = "Terms", !.field = field, !.term = text]]
  /\ UNCHANGED <<perField, forward, forwardByID, postings, last, fault, topn,
                 sliceVars, extraVars,
                 lock, stable, acq, writes>>

\* Terms: m.RLock()
TermsRLock(t) ==
  /\ fault = "none" /\ pc[t] = "TermsRLock"
  /\ ReaderCanEnter(lock)
  /\ lock' = RLockBy(lock, t)
  /\ pc' = [pc EXCEPT ![t] = "TermsAnalyze"]
  /\ UNCHANGED <<perField, forward, forwardByID, postings, last, fault, topn,
                 sliceVars, extraVars,
                 loc, stable, acq, writes>>

\* Terms: the analyzer of the field, tokens := analyzer.AnalyzeSearch(term),
\* and the first round of the loop calls NewTermQuery; epoch remembers which
\* index the call started on
TermsAnalyze(t) ==
  /\ fault = "none" /\ pc[t] = "TermsAnalyze"
  /\ LET an == SearchAnalyzer(perField, loc[t].field)
         tokens == AnalyzeSearch(an, loc[t].term)
     IN  /\ loc' = [loc EXCEPT ![t].tokens = tokens, ![t].inTerms = TRUE,
                               ![t].epoch = stable.commit,
                               ![t].term = IF tokens = << >> THEN << >>
                                           ELSE Head(tokens)]
         /\ pc' = [pc EXCEPT ![t] =
                     IF tokens = << >> THEN "TermsRUnlock" ELSE "TermRLock"]
  /\ UNCHANGED <<perField, forward, forwardByID, postings, last, fault, topn,
                 sliceVars, extraVars,
                 lock, stable, acq, writes>>

\* NewTermQuery: m.RLock()
TermRLock(t) ==
  /\ fault = "none" /\ pc[t] = "TermRLock"
  /\ ReaderCanEnter(lock)
  /\ lock' = RLockBy(lock, t)
  /\ pc' = [pc EXCEPT ![t] = "TermRead"]
  /\ UNCHANGED <<perField, forward, forwardByID, postings, last, fault, topn,
                 sliceVars, extraVars,
                 loc, stable, acq, writes>>

\* NewTermQuery: the lookups in m.postings and iq.Term(len(m.forward), s, pv)
TermRead(t) ==
  /\ fault = "none" /\ pc[t] = "TermRead"
  /\ loc' = [loc EXCEPT ![t].captured =
               NewTermQuery(forward, postings, loc[t].field, loc[t].term)]
  /\ pc' = [pc EXCEPT ![t] = "TermRUnlock"]
  /\ UNCHANGED <<perField, forward, forwardByID, postings, last, fault, topn,
                 sliceVars, extraVars,
                 lock, stable, acq, writes>>

\* NewTermQuery: the deferred m.RUnlock() and the return, to the caller or
\* into Terms' loop (queries = append(queries, ...), then the next token)
TermRUnlock(t) ==
  /\ fault = "none" /\ pc[t] = "TermRUnlock"
  /\ lock' = RUnlockBy(lock, t)
  /\ IF loc[t].inTerms
     THEN LET rest == Tail(loc[t].tokens)
          IN  /\ loc' = [loc EXCEPT ![t].queries = Append(@, loc[t].captured),
                                    ![t].tokens = rest,
                                    ![t].term = IF rest = << >> THEN << >>
                                                ELSE Head(rest)]
              /\ pc' = [pc EXCEPT ![t] =
                          IF rest = << >> THEN "TermsRUnlock" ELSE "TermRLock"]
     ELSE /\ loc' = [loc EXCEPT ![t].ret = "query"]
          /\ pc' = [pc EXCEPT ![t] = "idle"]
  /\ UNCHANGED <<perField, forward, forwardByID, postings, last, fault, topn,
                 sliceVars, extraVars,
                 stable, acq, writes>>

\* Terms: the deferred m.RUnlock() and return queries
TermsRUnlock(t) ==
  /\ fault = "none" /\ pc[t] = "TermsRUnlock"
  /\ lock' = RUnlockBy(lock, t)
  /\ loc' = [loc EXCEPT ![t].ret = "queries"]
  /\ pc' = [pc EXCEPT ![t] = "idle"]
  /\ UNCHANGED <<perField, forward, forwardByID, postings, last, fault, topn,
                 sliceVars, extraVars,
                 stable, acq, writes>>

NextConc ==
  \E t \in Threads :
    \/ \E docs \in ConcBatches : CallIndex(t, docs)
    \/ \E id \in ConcDeleteIDs : CallDelete(t, id)
    \/ \E uuid \in ConcExtIDs : CallDeleteByID(t, uuid)
    \/ WLock(t)
    \/ WEnter(t)
    \/ IndexAppend(t)
    \/ IndexField(t)
    \/ DeleteLookup(t)
    \/ DeleteRead(t)
    \/ DeleteField(t)
    \/ DeleteNil(t)
    \/ WUnlock(t)
    \/ \E id \in ConcGetIDs : CallGet(t, id)
    \/ GetRead(t)
    \/ \E uuid \in ConcExtIDs : CallGetByID(t, uuid)
    \/ GetByIDRLock(t)
    \/ GetByIDLookup(t)
    \/ GetByIDRUnlock(t)
    \/ GetByIDRead(t)
    \/ \E ft \in ConcTerms : CallNewTermQuery(t, ft[1], ft[2])
    \/ \E ft \in ConcTexts : CallTerms(t, ft[1], ft[2])
    \/ TermsRLock(t)
    \/ TermsAnalyze(t)
    \/ TermRLock(t)
    \/ TermRead(t)
    \/ TermRUnlock(t)
    \/ TermsRUnlock(t)

SpecConc == ConcInitAll /\ [][NextConc]_vars

\* --------------------------------------------- one posting list as a slice
\* The list of one term, with the arrays behind it.  A slice is the array it
\* points into, its len and its cap; all slices here start at element 0 of
\* their array.  A term query keeps the slice NewTermQuery hands to iq.Term.
SliceField == "names"

SliceTerm == va

\* the documents indexed in SpecSlice: they have the term (D1 three times)
SliceDocs == {"D1"}

\* the elements of a slice
View(b, s) == [i \in 1..s.len |-> b[s.arr][i]]

\* the cap append gives the new array when the old one is full
GrowCap(c) == IF c = 0 THEN 1 ELSE 2 * c

\* []int32{did}: a new array of one element
Literal(hs, did) ==
  [backing |-> Append(hs.backing, <<did>>),
   pv |-> [ok |-> TRUE, s |-> [arr |-> Len(hs.backing) + 1, len |-> 1, cap |-> 1]]]

\* pk[v] = append(current, did): in place while the array has room, else into
\* a new and larger array
GoAppend(hs, did) ==
  LET s == hs.pv.s
  IN  IF s.len < s.cap
      THEN [backing |-> [hs.backing EXCEPT ![s.arr][s.len + 1] = did],
            pv |-> [hs.pv EXCEPT !.s.len = @ + 1]]
      ELSE LET cap == GrowCap(s.cap)
               old == View(hs.backing, s)
           IN  [backing |-> Append(hs.backing,
                              [i \in 1..cap |->
                                 IF i <= s.len THEN old[i]
                                 ELSE IF i = s.len + 1 THEN did ELSE 0]),
                pv |-> [hs.pv EXCEPT !.s = [arr |-> Len(hs.backing) + 1,
                                            len |-> s.len + 1, cap |-> cap]]]

\* pk[v] = append(current[:found], current[found+1:]...): the elements after
\* found move one place down in the same array
Cut(hs, found) ==
  LET s == hs.pv.s
  IN  [backing |-> [hs.backing EXCEPT ![s.arr] =
                      [i \in 1..s.cap |->
                         IF i > found /\ i < s.len THEN @[i + 1] ELSE @[i]]],
       pv |-> [hs.pv EXCEPT !.s.len = @ - 1]]

\* addPostings that appends to an emptied list instead of starting a new one
AddSlice_AppendToEmptied(hs, did) ==
  IF ~hs.pv.ok THEN Literal(hs, did)
  ELSE IF hs.pv.s.len = 0 \/ hs.backing[hs.pv.s.arr][hs.pv.s.len] # did
       THEN GoAppend(hs, did)
       ELSE hs

\* addPostings, for the list of the one term
AddSlice(hs, did) ==
  IF ~hs.pv.ok \/ hs.pv.s.len = 0 THEN Literal(hs, did)
  ELSE IF hs.backing[hs.pv.s.arr][hs.pv.s.len] # did
       THEN GoAppend(hs, did)
       ELSE hs

\* deletePostings, for the list of the one term
DelSlice(hs, did) ==
  IF ~hs.pv.ok \/ hs.pv.s.len = 0 THEN hs
  ELSE LET current == View(hs.backing, hs.pv.s)
           found == SearchLoop(0, Len(current), current, did)
       IN  IF found < Len(current) /\ current[found + 1] = did
           THEN Cut(hs, found)
           ELSE hs

\* how often the document has the term in the field: Index calls addPostings
\* and deleteLocked calls deletePostings that many times for the list
RECURSIVE KeyCallsIn(_, _)
KeyCallsIn(an, values) ==
  IF values = << >> THEN 0
  ELSE Len(SelectSeq(AnalyzeIndex(an, Head(values)), LAMBDA t : t = SliceTerm))
       + KeyCallsIn(an, Tail(values))

KeyCalls(pf, d) ==
  IF SliceField \in DOMAIN IndexableFields(d)
  THEN KeyCallsIn(IndexAnalyzer(pf, SliceField), IndexableFields(d)[SliceField])
  ELSE 0

RECURSIVE AddSliceTimes(_, _, _)
AddSliceTimes(hs, did, n) ==
  IF n = 0 THEN hs ELSE AddSliceTimes(AddSlice(hs, did), did, n - 1)

RECURSIVE DelSliceTimes(_, _, _)
DelSliceTimes(hs, did, n) ==
  IF n = 0 THEN hs ELSE DelSliceTimes(DelSlice(hs, did), did, n - 1)

Heap == [backing |-> backing, pv |-> pv]

InitSlice ==
  /\ perField \in PerFieldChoices
  /\ forward = << >>
  /\ forwardByID = EmptyMap
  /\ postings = EmptyMap
  /\ last = NoCall
  /\ fault = "none"
  /\ topn = TopNIdle
  /\ ConcInit
  /\ SliceInit
  /\ ExtraInit

\* Index(d)
SliceIndex(d) ==
  /\ fault = "none"
  /\ Len(forward) < MaxSliceDocs
  /\ LET st == IndexDocs(perField, Store, <<d>>)
         hs == AddSliceTimes(Heap, NextDocID(forward), KeyCalls(perField, d))
     IN  /\ forward' = st.forward
         /\ forwardByID' = st.forwardByID
         /\ postings' = st.postings
         /\ backing' = hs.backing
         /\ pv' = hs.pv
  /\ UNCHANGED <<perField, last, fault, topn, concVars, extraVars, held>>

\* deleteLocked(id) of Delete and DeleteByID
SliceDeleteLocked(id) ==
  LET st == DeleteLocked(perField, Store, id)
  IN  IF st.panic
      THEN /\ fault' = "panic"
           /\ UNCHANGED <<forward, forwardByID, postings, backing, pv>>
      ELSE LET hs == DelSliceTimes(Heap, id, KeyCalls(perField, forward[id + 1]))
           IN  /\ forward' = st.forward
               /\ forwardByID' = st.forwardByID
               /\ postings' = st.postings
               /\ backing' = hs.backing
               /\ pv' = hs.pv
               /\ fault' = fault

\* Delete(id)
SliceDelete(id) ==
  /\ fault = "none"
  /\ SliceDeleteLocked(id)
  /\ UNCHANGED <<perField, last, topn, concVars, extraVars, held>>

\* DeleteByID(uuid)
SliceDeleteByID(uuid) ==
  /\ fault = "none"
  /\ LET l == LookupID(forwardByID, uuid)
     IN  IF l.ok THEN SliceDeleteLocked(l.id)
         ELSE UNCHANGED <<forward, forwardByID, postings, backing, pv, fault>>
  /\ UNCHANGED <<perField, last, topn, concVars, extraVars, held>>

\* NewTermQuery(field, term): the query gets pv, or []int32{} when the map
\* has no list; seen is what the list held at that moment
SliceNewTermQuery ==
  /\ fault = "none"
  /\ Cardinality(held) < MaxHeld
  /\ LET s == IF pv.ok THEN pv.s ELSE NilSlice
     IN  held' = held \cup {[s |-> s, seen |-> View(backing, s)]}
  /\ UNCHANGED <<perField, forward, forwardByID, postings, last, fault, topn,
                 concVars, extraVars, backing, pv>>

NextSlice ==
  \/ \E d \in SliceDocs : SliceIndex(d)
  \/ \E id \in 0..(MaxSliceDocs - 1) : SliceDelete(id)
  \/ \E uuid \in ExtIDs : SliceDeleteByID(uuid)
  \/ SliceNewTermQuery

SpecSlice == InitSlice /\ [][NextSlice]_vars

\* ------------------------------------------------------- Shingles tokenizer
\* the cases of TestShingles: the input text, whether NewWhitespace runs
\* before NewShingles(n), and the expected tokens
TestShinglesCases ==
  {[in  |-> << >>,
    ws  |-> FALSE, n |-> 3,
    out |-> <<<< >>>>],
   [in  |-> <<"n", "e", "w", " ", "y", "o", "r", "k">>,
    ws  |-> TRUE, n |-> 2,
    out |-> <<<<"n", "e", "w">>,
             <<"n", "e", "w", "y", "o", "r", "k">>,
             <<"y", "o", "r", "k">>>>],
   [in  |-> <<"n", "e", "w", " ", "y", "o", "r", "k">>,
    ws  |-> TRUE, n |-> 3,
    out |-> <<<<"n", "e", "w">>,
             <<"y", "o", "r", "k">>>>],
   [in  |-> <<"n", "e", "w", " ", "y", "o", "r", "k">>,
    ws  |-> TRUE, n |-> 1,
    out |-> <<<<"n", "e", "w">>,
             <<"y", "o", "r", "k">>>>],
   [in  |-> <<"n", "e", "w", " ", "y", "o", "r", "k", " ", "c", "i", "t", "y">>,
    ws  |-> TRUE, n |-> 2,
    out |-> <<<<"n", "e", "w">>,
             <<"n", "e", "w", "y", "o", "r", "k">>,
             <<"y", "o", "r", "k">>,
             <<"y", "o", "r", "k", "c", "i", "t", "y">>,
             <<"c", "i", "t", "y">>>>],
   [in  |-> <<"n", "e", "w", " ", "y", "o", "r", "k", " ", "c", "i", "t", "y">>,
    ws  |-> TRUE, n |-> 3,
    out |-> <<<<"n", "e", "w">>,
             <<"n", "e", "w", "y", "o", "r", "k", "c", "i", "t", "y">>,
             <<"y", "o", "r", "k">>,
             <<"c", "i", "t", "y">>>>],
   [in  |-> <<"n", "e", "w", " ", "y", "o", "r", "k", " ", "c", "i", "t", "y", " ", "k", "i", "l", "l", "a">>,
    ws  |-> TRUE, n |-> 3,
    out |-> <<<<"n", "e", "w">>,
             <<"n", "e", "w", "y", "o", "r", "k", "c", "i", "t", "y">>,
             <<"y", "o", "r", "k">>,
             <<"y", "o", "r", "k", "c", "i", "t", "y", "k", "i", "l", "l", "a">>,
             <<"c", "i", "t", "y">>,
             <<"k", "i", "l", "l", "a">>>>],
   [in  |-> <<"n", "e", "w", " ", "y", "o", "r", "k", " ", "c", "i", "t", "y", " ", "k", "i", "l", "l", "a", " ", "g", "o", "r", "i", "l", "l", "a">>,
    ws  |-> TRUE, n |-> 3,
    out |-> <<<<"n", "e", "w">>,
             <<"n", "e", "w", "y", "o", "r", "k", "c", "i", "t", "y">>,
             <<"y", "o", "r", "k">>,
             <<"y", "o", "r", "k", "c", "i", "t", "y", "k", "i", "l", "l", "a">>,
             <<"c", "i", "t", "y">>,
             <<"c", "i", "t", "y", "k", "i", "l", "l", "a", "g", "o", "r", "i", "l", "l", "a">>,
             <<"k", "i", "l", "l", "a">>,
             <<"g", "o", "r", "i", "l", "l", "a">>>>]}

\* the tokens i..j of ts joined into one
RECURSIVE Join(_, _, _)
Join(ts, i, j) == IF i > j THEN << >> ELSE ts[i] \o Join(ts, i + 1, j)

\* the tokens Shingles(n) emits at position i if it emits the token and then
\* its concatenation with every shorter run of followers as well
ShinglesEmit_EveryRun(n, ts, i) ==
  <<ts[i]>> \o [j \in 1..(IF n - 1 < Len(ts) - i THEN n - 1 ELSE Len(ts) - i)
                  |-> Join(ts, i, i + j)]

\* the tokens Shingles(n) emits at position i: the token, and the
\* concatenation of the n tokens that start there when there are n
ShinglesEmit(n, ts, i) ==
  IF n >= 2 /\ i + n - 1 <= Len(ts)
  THEN <<ts[i], Join(ts, i, i + n - 1)>>
  ELSE <<ts[i]>>

\* the token lists Shingles is run on besides the test cases
ShingleWords == {<<"a">>, <<"b">>}

InitShingles ==
  /\ perField \in PerFieldChoices
  /\ forward = << >>
  /\ forwardByID = EmptyMap
  /\ postings = EmptyMap
  /\ last = NoCall
  /\ fault = "none"
  /\ topn = TopNIdle
  /\ ConcInit
  /\ SliceInit
  /\ ExtraInit

\* NewShingles(n) is applied to a token list
ShinglesCall(n, ts) ==
  /\ shingles.pc = "idle"
  /\ shingles' = [ShinglesIdle EXCEPT !.pc = "run", !.n = n, !.tokens = ts]
  /\ UNCHANGED <<perField, forward, forwardByID, postings, last, fault, topn,
                 concVars, sliceVars, dir>>

\* a case of TestShingles is run
ShinglesTest(c) ==
  /\ shingles.pc = "idle"
  /\ shingles' = [ShinglesIdle EXCEPT
                    !.pc = "run", !.n = c.n,
                    !.tokens = IF c.ws THEN Whitespace(c.in) ELSE <<c.in>>,
                    !.test = TRUE, !.want = c.out]
  /\ UNCHANGED <<perField, forward, forwardByID, postings, last, fault, topn,
                 concVars, sliceVars, dir>>

\* the next token of the list is taken
ShinglesStep ==
  /\ shingles.pc = "run"
  /\ IF shingles.i < Len(shingles.tokens)
     THEN shingles' = [shingles EXCEPT
                         !.i = @ + 1,
                         !.out = @ \o ShinglesEmit(shingles.n, shingles.tokens,
                                                   shingles.i + 1)]
     ELSE shingles' = [shingles EXCEPT !.pc = "done"]
  /\ UNCHANGED <<perField, forward, forwardByID, postings, last, fault, topn,
                 concVars, sliceVars, dir>>

\* the caller takes the tokens
ShinglesReturn ==
  /\ shingles.pc = "done"
  /\ shingles' = ShinglesIdle
  /\ UNCHANGED <<perField, forward, forwardByID, postings, last, fault, topn,
                 concVars, sliceVars, dir>>

NextShingles ==
  \/ /\ shingles.pc = "idle"
     /\ \E n \in 1..MaxShingle, ts \in SeqsUpTo(ShingleWords, MaxTokens) :
          ShinglesCall(n, ts)
  \/ \E c \in TestShinglesCases : ShinglesTest(c)
  \/ ShinglesStep
  \/ ShinglesReturn

SpecShingles == InitShingles /\ [][NextShingles]_vars

\* ------------------------------------------------------------- DirIndex
\* the posting files add is called for, and the results of its system calls
DirFiles == {"f1", "f2", "f3"}

DirDocIDs == {0, 1}

AddOutcomes == {"ok", "open fails", "seek or write fails"}

\* the descriptor os.OpenFile gets: the lowest one not open
FreeFD(open) ==
  CHOOSE fd \in 1..(Cardinality(open) + 1) :
    fd \notin open /\ \A g \in 1..(fd - 1) : g \in open

\* add: the branch for a file that is not in fdCache, up to os.OpenFile
DirFlush(d) ==
  IF Cardinality(DOMAIN d.fdCache) > d.maxOpenFD
  THEN [d EXCEPT !.open = @ \ MapValues(d.fdCache), !.fdCache = EmptyMap]
  ELSE d

\* add(fn, did)
DirAddResult(d, fn, did, outcome) ==
  LET cached == fn \in DOMAIN d.fdCache
      flushed == IF cached THEN d ELSE DirFlush(d)
      fd == IF cached THEN d.fdCache[fn] ELSE FreeFD(flushed.open)
      opened == IF cached THEN d
                ELSE [flushed EXCEPT
                        !.open = @ \cup {fd},
                        !.fdCache = MapPut(@, fn, fd),
                        !.files = IF fn \in DOMAIN @ THEN @
                                  ELSE MapPut(@, fn, << >>)]
  IN  IF ~cached /\ outcome = "open fails"
      THEN [flushed EXCEPT !.err = TRUE]
      ELSE IF outcome = "seek or write fails"
           THEN [opened EXCEPT !.err = TRUE]
           ELSE [opened EXCEPT !.err = FALSE,
                               !.files = MapPut(@, fn, Append(@[fn], did))]

InitDir ==
  /\ perField \in PerFieldChoices
  /\ forward = << >>
  /\ forwardByID = EmptyMap
  /\ postings = EmptyMap
  /\ last = NoCall
  /\ fault = "none"
  /\ topn = TopNIdle
  /\ ConcInit
  /\ SliceInit
  /\ shingles = ShinglesIdle
  /\ \E m \in 0..MaxOpenFD : dir = [DirNone EXCEPT !.maxOpenFD = m]

DirAdd(fn, did, outcome) ==
  /\ fn \in DOMAIN dir.files => Len(dir.files[fn]) < MaxRecords
  /\ dir' = DirAddResult(dir, fn, did, outcome)
  /\ UNCHANGED <<perField, forward, forwardByID, postings, last, fault, topn,
                 concVars, sliceVars, shingles>>

NextDir ==
  \E fn \in DirFiles, did \in DirDocIDs, outcome \in AddOutcomes :
    DirAdd(fn, did, outcome)

SpecDir == InitDir /\ [][NextDir]_vars


\* ================================================================ claims
\* the tokens the index path produces from field f of document d
IndexTokens(d, f) ==
  IF f \notin DOMAIN IndexableFields(d) THEN {}
  ELSE LET values == IndexableFields(d)[f]
       IN  UNION {Range(AnalyzeIndex(IndexAnalyzer(perField, f), values[i])) :
                    i \in 1..Len(values)}

\* the external ids document d carries in the id field
ExternalIDs(d) ==
  IF IDField \in DOMAIN IndexableFields(d)
  THEN Range(IndexableFields(d)[IDField]) ELSE {}

\* every (field, term) with a posting list in p
PostingKeys(p) == {<<f, t>> : f \in DOMAIN p, t \in UNION {DOMAIN p[g] : g \in DOMAIN p}}

StrictlyIncreasing(s) == \A i \in 1..Len(s), j \in 1..Len(s) : i < j => s[i] < s[j]

\* C1: every posting list is strictly increasing (so it holds no DocID
\* twice), however often a token occurs in the field values of a document
C1_PostingsStrictlyIncreasing ==
  \A ft \in PostingKeys(postings) :
     StrictlyIncreasing(PostingList(postings, ft[1], ft[2]))

\* a document whose field repeats a token is indexed next to another one
\* carrying the token, and a delete has been through the lists
C1_Witness ==
  /\ last.op = "Delete" /\ fault = "none"
  /\ Len(PostingList(postings, "names", va)) >= 2
  /\ \E did \in 0..(Len(forward) - 1) : IsLive(forward, did) /\ forward[did + 1] = "D1"

\* C2: after Delete(did) on a live document, did is in no posting list
C2_DeletedInNoPostingList ==
  (last.op = "Delete" /\ fault = "none") =>
     \A ft \in PostingKeys(postings) :
        last.did \notin Range(PostingList(postings, ft[1], ft[2]))

\* C3: Delete(did) adds no DocID to a posting list and removes none but did
C3_DeleteKeepsOtherIDs ==
  [][last'.op = "Delete" =>
       \A ft \in PostingKeys(postings) \cup PostingKeys(postings') :
         \A id \in 0..MaxDocs :
            id # last'.did =>
              (id \in Range(PostingList(postings, ft[1], ft[2]))
                 <=> id \in Range(PostingList(postings', ft[1], ft[2])))]_vars

\* a Delete has emptied one posting list while another list still holds the
\* DocID of a live document
C3_Witness ==
  /\ last.op = "Delete" /\ fault = "none"
  /\ \E ft \in PostingKeys(postings) :
       /\ ft[1] \in DOMAIN postings /\ ft[2] \in DOMAIN postings[ft[1]]
       /\ postings[ft[1]][ft[2]] = << >>
  /\ \E ft \in PostingKeys(postings) :
       \E id \in Range(PostingList(postings, ft[1], ft[2])) :
          id # last.did /\ IsLive(forward, id)

\* C4: Index gives every document the DocID len(forward) at the time it is
\* appended: the DocIDs of a call are the next unused ones in argument order,
\* the document sits in that slot, the earlier slots are untouched, and its
\* tokens are posted under that DocID
C4_DocIDIsForwardLength ==
  [][last'.op = "Index" =>
       /\ Len(last'.dids) = Len(last'.docs)
       /\ Len(forward') = Len(forward) + Len(last'.docs)
       /\ SubSeq(forward', 1, Len(forward)) = forward
       /\ \A i \in 1..Len(last'.docs) :
            /\ last'.dids[i] = Len(forward) + i - 1
            /\ forward'[last'.dids[i] + 1] = last'.docs[i]
            /\ \A f \in Fields : \A t \in IndexTokens(last'.docs[i], f) :
                 last'.dids[i] \in Range(PostingList(postings', f, t))]_vars

\* two documents have been indexed in one call after a Delete left a
\* tombstone
C4_Witness ==
  /\ last.op = "Index" /\ Len(last.docs) = 2
  /\ \E i \in 1..Len(forward) : forward[i] = Nil

\* C5: every live document is in the posting list of every token the index
\* path produces from each of its fields
C5_LiveDocsArePosted ==
  \A did \in 0..(Len(forward) - 1) :
     IsLive(forward, did) =>
       \A f \in Fields : \A t \in IndexTokens(forward[did + 1], f) :
          did \in Range(PostingList(postings, f, t))

\* a document has been deleted while another one sharing a token with it is
\* live
C5_Witness ==
  /\ last.op \in {"Delete", "DeleteByID"} /\ fault = "none"
  /\ last.did >= 0
  /\ \E did \in 0..(Len(forward) - 1) :
       /\ IsLive(forward, did)
       /\ did \in Range(PostingList(postings, "names", va))
       /\ last.did \in Range(PostingList(postings, "names", va))

\* C6: forwardByID maps e to did exactly when forward[did] is live and its
\* id field contains e
C6_ForwardByIDIffLive ==
  \A e \in ExtIDs : \A did \in 0..(Len(forward) - 1) :
     (e \in DOMAIN forwardByID /\ forwardByID[e] = did)
       <=> (IsLive(forward, did) /\ e \in ExternalIDs(forward[did + 1]))

\* the DocIDs Foreach over the term query of (field, term) has to report
Matches(field, term) ==
  {did \in 0..(Len(forward) - 1) :
     IsLive(forward, did) /\ term \in IndexTokens(forward[did + 1], field)}

\* C7: Foreach over the term query of (field, term) calls back exactly once
\* for each live document whose field analyses to contain term, in ascending
\* DocID order, and for no other DocID
C7_ForeachTermMatchesLive ==
  last.op = "ForeachTerm" =>
    /\ fault = "none"
    /\ Len(last.calls) = Cardinality(Matches(last.field, last.term))
    /\ {last.calls[i].did : i \in 1..Len(last.calls)}
         = Matches(last.field, last.term)
    /\ \A i \in 1..Len(last.calls), j \in 1..Len(last.calls) :
         i < j => last.calls[i].did < last.calls[j].did
    /\ \A i \in 1..Len(last.calls) :
         last.calls[i].doc = forward[last.calls[i].did + 1]

\* the term's posting list still names a deleted document, and a live one
\* was reported
C7_Witness ==
  /\ last.op = "ForeachTerm"
  /\ Len(last.calls) >= 1
  /\ Len(last.list) > Len(last.calls)

\* C8: for a query iterator yielding DocIDs inside forward, Foreach never
\* calls back with a tombstoned DocID and passes the document of the slot
C8_ForeachSkipsTombstones ==
  (last.op \in {"ForeachQuery", "ForeachTerm"} /\ fault = "none") =>
    \A i \in 1..Len(last.calls) :
       /\ IsLive(forward, last.calls[i].did)
       /\ last.calls[i].doc # Nil
       /\ last.calls[i].doc = forward[last.calls[i].did + 1]
       /\ last.calls[i].did \in Range(last.list)

\* the iterator yielded a tombstoned DocID and a live one
C8_Witness ==
  /\ last.op = "ForeachQuery" /\ fault = "none"
  /\ Len(last.calls) >= 1
  /\ \E i \in 1..Len(last.list) : forward[last.list[i] + 1] = Nil

\* C9: Delete(did) on a tombstoned slot returns without fault and leaves
\* forward, forwardByID and postings unchanged
C9_DeleteTombstoneIsNoop ==
  [][(/\ last'.op = "Delete"
      /\ last'.did < Len(forward)
      /\ forward[last'.did + 1] = Nil)
       => (fault' = "none" /\ UNCHANGED <<forward, forwardByID, postings>>)]_vars

\* C10: Get(did) returns nil without fault for an out-of-range did and for a
\* tombstone, and the stored document for a live slot
C10_GetReturnsLiveOrNil ==
  last.op = "Get" =>
    /\ fault = "none"
    /\ last.ret = IF IsLive(forward, last.did)
                  THEN forward[last.did + 1] ELSE Nil


\* C11: GetByID and DeleteByID of an external id that is not in forwardByID
\* are not errors: GetByID returns nil, DeleteByID changes nothing
C11_UnknownExternalID ==
  [][/\ (last'.op = "DeleteByID" /\ last'.ext \notin DOMAIN forwardByID)
          => (fault' = "none"
              /\ UNCHANGED <<forward, forwardByID, postings>>)
     /\ (last'.op = "GetByID" /\ last'.ext \notin DOMAIN forwardByID)
          => (fault' = "none" /\ last'.ret = Nil)]_vars

\* DeleteByID was called with an id no document is registered under while
\* the index holds a live document
C11_Witness ==
  /\ last.op = "DeleteByID" /\ last.did = -1 /\ fault = "none"
  /\ last.ext \notin DOMAIN forwardByID
  /\ IsLive(forward, 0)

\* no two live documents carry the same external id
DistinctLiveIDs(fwd) ==
  \A d1 \in 0..(Len(fwd) - 1), d2 \in 0..(Len(fwd) - 1) :
     (d1 # d2 /\ IsLive(fwd, d1) /\ IsLive(fwd, d2))
       => ExternalIDs(fwd[d1 + 1]) \cap ExternalIDs(fwd[d2 + 1]) = {}

\* the DocIDs Foreach reports for the term query of (field, term)
TermQueryDocIDs(fwd, p, field, term) ==
  LET calls == ForeachCalls(fwd, NewTermQuery(fwd, p, field, term)).calls
  IN  {calls[i].did : i \in 1..Len(calls)}

\* C12: with pairwise distinct external ids among the live documents,
\* DeleteByID(e) tombstones exactly the document registered under e:
\* GetByID(e) and Get(did) return nil afterwards, no term query reports did,
\* and GetByID of the ids of the other documents returns what it did
C12_DeleteByIDExactlyOne ==
  [][(/\ last'.op = "DeleteByID"
      /\ last'.ext \in DOMAIN forwardByID
      /\ DistinctLiveIDs(forward))
       => LET did == forwardByID[last'.ext]
          IN  /\ fault' = "none"
              /\ Len(forward') = Len(forward)
              /\ \A i \in 1..Len(forward) :
                   forward'[i] = IF i = did + 1 THEN Nil ELSE forward[i]
              /\ GetByIDResult(forward', forwardByID', last'.ext)
                   = [ret |-> Nil, panic |-> FALSE]
              /\ GetResult(forward', did) = [ret |-> Nil, panic |-> FALSE]
              /\ \A ft \in TermPairs :
                   did \notin TermQueryDocIDs(forward', postings', ft[1], ft[2])
              /\ \A e \in DOMAIN forwardByID :
                   forwardByID[e] # did =>
                     /\ GetByIDResult(forward', forwardByID', e)
                          = GetByIDResult(forward, forwardByID, e)
                     /\ GetByIDResult(forward', forwardByID', e).ret # Nil]_vars

\* DeleteByID has tombstoned one document while another one is still found
\* under its own external id
C12_Witness ==
  /\ last.op = "DeleteByID" /\ last.did >= 0 /\ fault = "none"
  /\ forward[last.did + 1] = Nil
  /\ DistinctLiveIDs(forward)
  /\ \E e \in DOMAIN forwardByID : IsLive(forward, forwardByID[e])


\* the live matches the query of the TopN call yields, in order, each with
\* the score the hits are ranked by
RECURSIVE LiveMatchesFrom(_, _)
LiveMatchesFrom(st, i) ==
  IF i > Len(st.q.list) THEN << >>
  ELSE LET did == st.q.list[i]
       IN  IF IsLive(forward, did)
           THEN <<[did |-> did, doc |-> forward[did + 1],
                   score |-> IF st.cb = "nil" THEN st.scores[i]
                             ELSE Rescore(st.cb, did, st.scores[i],
                                          forward[did + 1])]>>
                  \o LiveMatchesFrom(st, i + 1)
           ELSE LiveMatchesFrom(st, i + 1)

LiveMatches(st) == LiveMatchesFrom(st, 1)

\* C13: total is the number of live matches whatever the limit; with limit 0
\* there are no hits and the rescore callback is never invoked, with a
\* positive limit it is invoked exactly once per live match
C13_TopNTotalAndRescoreCalls ==
  topn.pc = "done" =>
    LET live == LiveMatches(topn)
    IN  /\ topn.total = Len(live)
        /\ topn.limit = 0 => (topn.hits = << >> /\ topn.cbcalls = << >>)
        /\ (topn.limit > 0 /\ topn.cb # "nil") =>
             topn.cbcalls = [i \in 1..Len(live) |-> live[i].did]

\* TopN with limit 0 and a rescore callback has gone through a query that
\* yielded live documents and a tombstone
C13_Witness ==
  /\ topn.pc = "done" /\ topn.limit = 0 /\ topn.cb # "nil"
  /\ topn.total >= 2
  /\ \E i \in 1..Len(topn.q.list) : forward[topn.q.list[i] + 1] = Nil

\* C14 as claimed: after every match, and in the result, the hits are sorted
\* strictly descending by score and are at most limit
C14_HitsStrictlyDescending ==
  /\ Len(topn.scored) <= topn.limit
  /\ \A i \in 1..Len(topn.scored), j \in 1..Len(topn.scored) :
       i < j => topn.scored[i].score > topn.scored[j].score
  /\ topn.pc = "done" => topn.hits = topn.scored

\* C14 as amended: after every match, and in the result, the hits are sorted
\* descending by score, equal scores allowed next to each other, and are at
\* most limit
C14_HitsDescending ==
  /\ Len(topn.scored) <= topn.limit
  /\ \A i \in 1..Len(topn.scored), j \in 1..Len(topn.scored) :
       i < j => topn.scored[i].score >= topn.scored[j].score
  /\ topn.pc = "done" => topn.hits = topn.scored

\* the result holds two hits of the same score
C14_Witness ==
  /\ topn.pc = "done" /\ Len(topn.hits) >= 2
  /\ \E i \in 1..(Len(topn.hits) - 1) :
       topn.hits[i].score = topn.hits[i + 1].score

\* position i of ms ranks ahead of position j: a higher score, or the same
\* score and seen first
Ahead(ms, i, j) ==
  \/ ms[i].score > ms[j].score
  \/ (ms[i].score = ms[j].score /\ i < j)

\* the n best of ms, best first
BestOf(ms, n) ==
  LET rank(i) == Cardinality({j \in 1..Len(ms) : j # i /\ Ahead(ms, j, i)}) + 1
      size == IF n < Len(ms) THEN n ELSE Len(ms)
  IN  [r \in 1..size |-> ms[CHOOSE i \in 1..Len(ms) : rank(i) = r]]

\* C15: for a positive limit the hits are the limit best live matches by
\* rescored score, a match seen first ranking ahead of a later one of the
\* same score
C15_HitsAreTopLimit ==
  (topn.pc = "done" /\ topn.limit > 0) =>
    LET best == BestOf(LiveMatches(topn), topn.limit)
    IN  /\ Len(topn.hits) = Len(best)
        /\ \A i \in 1..Len(best) :
             /\ topn.hits[i].did = best[i].did
             /\ topn.hits[i].score = best[i].score
             /\ topn.hits[i].doc = best[i].doc

\* more live matches than limit, and a match left out has the score of the
\* last hit
C15_Witness ==
  /\ topn.pc = "done" /\ topn.limit > 0
  /\ topn.total > topn.limit
  /\ LET live == LiveMatches(topn)
     IN  \E i \in 1..Len(live) :
            /\ \A h \in 1..Len(topn.hits) : topn.hits[h].did # live[i].did
            /\ live[i].score = topn.hits[Len(topn.hits)].score

\* the statements of Get and GetByID that read m.forward or m.forwardByID
ReadsIndex(t) == pc[t] \in {"GetRead", "GetByIDLookup", "GetByIDRead"}

\* C16: Get and GetByID read forward and forwardByID with the shared lock
\* held, so that no goroutine is about to do such a read while a writer is
\* inside its exclusive critical section.
C16_ReadsHoldSharedLock ==
  \A t \in Threads :
    ReadsIndex(t) => /\ lock.readers[t] > 0
                     /\ ~lock.active

\* the goroutines between m.Lock() and m.Unlock()
InCritical == {t \in Threads : pc[t] \in {"IndexDoc", "IndexField", "DeleteLookup",
                                          "DeleteRead", "DeleteField",
                                          "DeleteNil", "Unlock"}}

\* C17: a step that changes forward, forwardByID or postings is taken by the
\* one goroutine that holds the exclusive lock, while no goroutine holds the
\* shared lock; and at most one goroutine is inside Index, Delete or
\* DeleteByID's critical section.
C17_MutationsUnderExclusiveLock ==
  [][ /\ <<forward, forwardByID, postings>>' # <<forward, forwardByID, postings>>
         => /\ lock.active
            /\ lock.w \in InCritical
            /\ \A t \in Threads : t # lock.w => pc'[t] = pc[t] /\ loc'[t] = loc[t]
            /\ \A r \in Threads : lock.readers[r] = 0
      /\ Cardinality(InCritical') <= 1
    ]_vars

\* Delete is taking the document out of the index while another writer and
\* a reader are waiting for the lock
C17_Witness ==
  /\ \E t \in Writers : pc[t] = "DeleteNil" /\ postings # stable.postings
  /\ \E t \in Writers : pc[t] = "Lock"
  /\ \E r \in Readers : pc[r] \in {"TermRLock", "TermsRLock", "GetByIDRLock"}

RECURSIVE AllDids(_)
AllDids(a) == IF a = << >> THEN << >> ELSE a[1].dids \o AllDids(Tail(a))

\* C18: the DocIDs of the Index calls, call after call in the order the calls
\* got the lock and within a call in the order of its documents, are
\* 0, 1, 2, ...: every call has a contiguous block, in the order of its
\* arguments, and the blocks follow each other in lock-acquisition order.
C18_IndexBlocksInLockOrder ==
  /\ AllDids(acq) = [k \in 1..Len(forward) |-> k - 1]
  /\ \A i \in 1..Len(acq) :
        /\ Len(acq[i].dids) <= Len(acq[i].docs)
        /\ \A k \in 1..Len(acq[i].dids) :
              forward[acq[i].dids[k] + 1] \in {acq[i].docs[k], Nil}

\* two Index calls of different goroutines have run, the first one of two
\* documents and with the other call already under way when it got the lock
C18_Witness ==
  \E i, j \in 1..Len(acq) :
    /\ i < j /\ acq[i].t # acq[j].t /\ acq[i].raced
    /\ Len(acq[i].dids) = 2
    /\ Len(acq[j].dids) = Len(acq[j].docs)

\* C19: what NewTermQuery captures, on its own or inside Terms, is the
\* count and the posting list of the index as a finished writer left it
\* (stable), never of an index a writer is halfway through changing; and all
\* the queries of one Terms call are taken from the same such index.
C19_TermQueriesSeeWholeCalls ==
  [][ \A t \in Threads :
        pc[t] = "TermRead" /\ pc'[t] = "TermRUnlock"
        => /\ loc'[t].captured =
                NewTermQuery(stable.forward, stable.postings,
                             loc[t].field, loc[t].term)
           /\ loc[t].inTerms => loc[t].epoch = stable.commit
    ]_vars

\* a Terms call has taken its first query and is about to take its second
\* while an Index call waits for the lock, and the index is not empty
C19_Witness ==
  \E t \in Readers :
    /\ pc[t] = "TermRead" /\ loc[t].inTerms /\ Len(loc[t].queries) = 1
    /\ loc[t].queries[1].total > 0
    /\ \E w \in Writers : pc[w] = "LockWait" /\ loc[w].op = "Index"

\* C20: the elements and the length of the slice a term query was given
\* stay what they were when NewTermQuery returned it, whatever Index, Delete
\* and DeleteByID do to the arrays afterwards (and the slice in the map is the
\* posting list).
C20_QuerySliceIsStable ==
  /\ \A q \in held : View(backing, q.s) = q.seen
  /\ View(backing, pv.s) = PostingList(postings, SliceField, SliceTerm)

\* a query holds a slice of the array the list still lives in, append has
\* stored a later DocID in that array behind it, a document has been deleted,
\* and another query holds the one-element list of a document deleted since
C20_Witness ==
  /\ \E q \in held : q.s.arr = pv.s.arr /\ q.s.len >= 1 /\ q.s.len < pv.s.len
  /\ \E q \in held : q.s.len = 1 /\ forward[q.seen[1] + 1] = Nil

\* a Terms call of goroutine t holds the read lock and waits for it again in
\* NewTermQuery, behind the writer that has announced itself and waits for
\* the readers to leave
WaitForEachOther(t) ==
  /\ pc[t] = "TermRLock" /\ loc[t].inTerms /\ lock.readers[t] > 0
  /\ ~ReaderCanEnter(lock)
  /\ lock.w \in Writers /\ pc[lock.w] = "LockWait"
  /\ ~WriterCanEnter(lock)

\* C21: no state is reached in which a Terms call and a writer wait for each
\* other: Terms with the read lock held waits in NewTermQuery's RLock for the
\* writer, and the writer waits in Lock for Terms to release.
C21_TermsAndWriterNeverBlockEachOther ==
  \A t \in Threads : ~WaitForEachOther(t)

\* C22: the step of NewTermQuery that constructs the term iterator is taken
\* with no read lock held by the calling goroutine.
C22_UnlockBeforeIteratorConstruction ==
  [][ \A t \in Threads :
        pc[t] = "TermRead" /\ pc'[t] = "TermRUnlock" => lock.readers[t] = 0
    ]_vars

\* the term query of the TopN call under way is over a (field, term) that
\* the postings map does not have
UnknownTerm ==
  \/ topn.field \notin DOMAIN postings
  \/ topn.term \notin DOMAIN postings[topn.field]

\* C23: the term query TopN was given by NewTermQuery(field, term) has the
\* label field ":" term, the size len(forward), tombstones included, and the
\* list postings[field][term]; for an unknown field or term the list is
\* empty, the first Next() says NO_MORE, and Foreach inside TopN ends with
\* no match, no hit and no fault.
C23_TermQueryOfUnknownIsEmpty ==
  topn.pc # "idle" /\ topn.field # ""
  => /\ topn.q.label = <<topn.field, ":", topn.term>>
     /\ topn.q.total = Len(forward)
     /\ topn.q.list = PostingList(postings, topn.field, topn.term)
     /\ UnknownTerm
        => /\ topn.q.list = << >>
           /\ QueryNext(topn.q, -1)[2] = NO_MORE
           /\ topn.total = 0 /\ topn.scored = << >> /\ topn.cbcalls = << >>
           /\ fault = "none"

\* TopN over the query of a term that a known field does not have has
\* returned, on an index that has a document and a tombstone
C23_Witness ==
  /\ topn.pc = "done" /\ topn.field \in DOMAIN postings /\ UnknownTerm
  /\ topn.limit > 0 /\ topn.hits = << >>
  /\ \E i, j \in 1..Len(forward) : forward[i] = Nil /\ forward[j] # Nil

\* the field names documents and callers use
FieldNames == Fields \cup {"id", "city"}

IDShaped(f) == f \in {IDField, "id", "uuid"}

\* C24: the queries Terms(field, text) returns are those of the tokens that
\* perField[field], or the Default analyzer when the field has none, makes
\* of text on the search path, for id-shaped field names too; Index resolves
\* the analyzer of an id-shaped field without perField entry to ID while
\* Terms resolves it to Default, and deleteLocked resolves every field as
\* Index does.
C24_TermsNeverFallsBackToID ==
  /\ last.op = "Terms"
     => LET an == IF last.field \in DOMAIN perField THEN perField[last.field]
                  ELSE "Default"
            tokens == AnalyzeSearch(an, last.term)
        IN  /\ Len(last.calls) = Len(tokens)
            /\ \A i \in 1..Len(tokens) :
                  last.calls[i] = Term(Len(forward),
                                       <<last.field, ":", tokens[i]>>,
                                       PostingList(postings, last.field, tokens[i]))
  /\ \A f \in FieldNames :
        /\ IndexAnalyzer(perField, f) = DeleteAnalyzer(perField, f)
        /\ f \notin DOMAIN perField /\ IDShaped(f)
           => /\ IndexAnalyzer(perField, f) = "ID"
              /\ SearchAnalyzer(perField, f) = "Default"

\* Terms has split the text "X x" for the field uuid in two tokens, while
\* Index has stored the same text of that field as the one token "X x"
C24_Witness ==
  /\ last.op = "Terms" /\ last.field = "uuid" /\ last.term = idX
  /\ Len(last.calls) = 2
  /\ PostingList(postings, "uuid", idX) # << >>

\* C25: Delete(did) on a live document writes the tombstone at slot did and
\* changes no other slot; no operation shortens forward or changes a slot
\* other than to a tombstone, and every slot holds a document or a
\* tombstone.
C25_DeleteTombstonesOneSlot ==
  [][ /\ Len(forward') >= Len(forward)
      /\ \A i \in 1..Len(forward) : forward'[i] \in {forward[i], Nil}
      /\ \A i \in 1..Len(forward') : forward'[i] \in Docs \cup {Nil}
      /\ last'.op = "Delete" /\ IsLive(forward, last'.did)
         => /\ fault' = "none"
            /\ forward' = [forward EXCEPT ![last'.did + 1] = Nil]
    ]_vars

\* Delete has tombstoned the middle one of three slots, between a slot that
\* was tombstoned before and a live document
C25_Witness ==
  /\ last.op = "Delete" /\ fault = "none" /\ last.did = 1
  /\ Len(forward) = 3
  /\ forward[1] = Nil /\ forward[2] = Nil /\ forward[3] # Nil

\* C26: a DocID in postings[f][t] is below len(forward), and its slot holds
\* a tombstone or a document whose field f has, analysed as Index analyses
\* it, the token t.
C26_PostedMeansTokenOrTombstone ==
  \A ft \in PostingKeys(postings) :
    \A did \in Range(PostingList(postings, ft[1], ft[2])) :
      /\ did >= 0 /\ did < Len(forward)
      /\ \/ forward[did + 1] = Nil
         \/ ft[2] \in IndexTokens(forward[did + 1], ft[1])

\* DeleteByID has run, and a posting list holds a tombstoned DocID next to
\* the DocID of a live document
C26_Witness ==
  /\ last.op = "DeleteByID" /\ fault = "none"
  /\ \E ft \in PostingKeys(postings) :
       \E a, b \in Range(PostingList(postings, ft[1], ft[2])) :
         forward[a + 1] = Nil /\ forward[b + 1] # Nil

Min(a, b) == IF a < b THEN a ELSE b

\* C27: TopN never faults, it holds min(limit, total) hits after every match,
\* and returns that many, total being the number of live matches.
C27_HitCountIsMinOfLimitAndTotal ==
  /\ fault = "none"
  /\ Len(topn.scored) = Min(topn.limit, topn.total)
  /\ topn.pc = "done"
     => /\ Len(topn.hits) = Min(topn.limit, topn.total)
        /\ topn.total = Len(LiveMatches(topn))

\* TopN has returned fewer hits than there were matches, and the index has
\* no tombstone
C27_Witness ==
  /\ topn.pc = "done" /\ topn.limit = 1 /\ topn.total = MaxDocs
  /\ Len(topn.hits) = 1
  /\ \A i \in 1..Len(forward) : forward[i] # Nil

\* Shingles(n) as claimed, on the whole list: at every position the token
\* and then its concatenation with the next 1, 2, ... n-1 tokens, as far as
\* the list goes
RECURSIVE ClaimedShinglesFrom(_, _, _)
ClaimedShinglesFrom(n, ts, i) ==
  IF i > Len(ts) THEN << >>
  ELSE <<ts[i]>>
       \o [j \in 1..Min(n - 1, Len(ts) - i) |-> Join(ts, i, i + j)]
       \o ClaimedShinglesFrom(n, ts, i + 1)

\* C28 as claimed, on the cases of TestShingles: the tokens the test expects
\* of Shingles(n), and the tokens returned, are, position by position, the
\* token followed by its concatenations with the next j tokens for every
\* j = 1..n-1 within the list.
C28_ShinglesEmitsEveryRun ==
  shingles.pc = "done" /\ shingles.test
  => /\ shingles.want = ClaimedShinglesFrom(shingles.n, shingles.tokens, 1)
     /\ shingles.out = ClaimedShinglesFrom(shingles.n, shingles.tokens, 1)

\* C28 as amended: of k tokens the first g = k - n + 1 (none when n = 1 or
\* n > k) are each followed by the concatenation of the n tokens starting
\* there and by nothing else, the others stand alone, in the order of the
\* list; the expected tokens of TestShingles are those.
C28_ShinglesEmitsFullRunsOnly ==
  shingles.pc = "done"
  => LET n == shingles.n
         ts == shingles.tokens
         k == Len(ts)
         g == IF n >= 2 /\ k >= n THEN k - n + 1 ELSE 0
         out == shingles.out
     IN  /\ Len(out) = k + g
         /\ \A i \in 1..g : out[2 * i - 1] = ts[i] /\ out[2 * i] = Join(ts, i, i + n - 1)
         /\ \A i \in (g + 1)..k : out[g + i] = ts[i]
         /\ shingles.test => out = shingles.want

\* the case Shingles(3) on "new york city killa" of TestShingles has run
C28_Witness ==
  /\ shingles.pc = "done" /\ shingles.test /\ shingles.n = 3
  /\ Len(shingles.tokens) = 4 /\ Len(shingles.out) = 6

\* C29: fdCache never holds more than maxOpenFD handles, and every handle
\* it holds is open.
C29_CacheWithinMaxOpenFD ==
  /\ Cardinality(DOMAIN dir.fdCache) <= dir.maxOpenFD
  /\ \A fn \in DOMAIN dir.fdCache : dir.fdCache[fn] \in dir.open

====
